---- MODULE Spec2Model ----
(***************************************************************************)
(* A model of the retrieval pipeline of rag-augmented-node:                *)
(*   - classifyOpenAIError / withRetry    (the resilient invoker),         *)
(*   - LocalVectorStore.search / searchMulti,                              *)
(*   - pickDiverse                        (the MMR-ish diversity selector),*)
(*   - embedTextsCached                   (the embedding cache),           *)
(*   - hashKey and the cache keys,                                         *)
(*   - getMultiQueriesCached, getHydeCached, answerWithContextCached,      *)
(*   - main                               (one run of the command).        *)
(*                                                                         *)
(* Numbers.  Embeddings are integer vectors of Euclidean norm Scale, so a  *)
(* dot product of two of them is a cosine similarity in units of           *)
(* 1/(Scale*Scale); lambda and minKeep are in units of 1/LambdaDen.        *)
(*                                                                         *)
(* Strings.  An error message is a sequence of words; toLowerCase maps     *)
(* each word and includes() looks for a contiguous run of words.  An       *)
(* absent (undefined) status is <<>>, a present one <<n>>; an absent or    *)
(* empty code is "", an absent or empty message is <<>>.                   *)
(***************************************************************************)
EXTENDS Integers, Sequences, FiniteSets, TLC

VARIABLES
    mode,        \* which operation this behaviour exercises
    rpc,         \* withRetry: "idle" | "calling" | "backoff" | "returned" | "thrown"
    label,       \* withRetry: the label option
    maxRetries,  \* withRetry: the maxRetries option
    attempt,     \* withRetry: the local variable attempt
    fnLog,       \* the outcome of every invocation of fn, in order
    warnLog,     \* every log.warn of withRetry, in order
    waitLog,     \* every setTimeout delay awaited by withRetry, in order
    retResult,   \* what withRetry returned (an outcome with ok) or threw
    store,       \* LocalVectorStore.items
    sop,         \* the store operation applied last: "none" | "search" | "searchMulti"
    sQueries,    \* its query vectors (one for search)
    sTopK,       \* topK of search, perQueryTopK of searchMulti
    sFinalTopK,  \* finalTopK of searchMulti
    sOut,        \* the hits it returned
    pop,         \* pickDiverse: "none" | "done"
    pHits,       \* pickDiverse: hits
    pK,          \* pickDiverse: k
    pLambda,     \* pickDiverse: lambda, in units of 1/LambdaDen
    pMinKeep,    \* pickDiverse: minKeep, in units of 1/LambdaDen
    pOut,        \* pickDiverse: the list it returned
    embedCache,  \* the embedding cache object: key -> vector
    epc,         \* embedTextsCached: "idle" | "waiting" | "returned" | "thrown"
    eTexts,      \* embedTextsCached: texts
    eMissIndexes,\* embedTextsCached: missIndexes
    eWrapped,    \* withRetry calls made by this invocation
    eRequests,   \* the input of every embedTexts call made by this invocation
    eOut,        \* what the invocation returned
    eCacheBefore,\* the cache object as the invocation found it
    ePrev,       \* the invocation before this one, as it ended
    genModel,    \* GEN_MODEL, as the environment sets it
    embedModel,  \* EMBED_MODEL, as the environment sets it
    kBuilt,      \* the cache keys built so far, each with its namespace
    augmentCache,\* the augmentation cache object: key -> rewrite list or HyDE text
    answerCache, \* the answer cache object: key -> answer
    cpc,         \* a cached generation call: "idle" | "waiting" | "returned" | "thrown"
    cOp,         \* which one: "none" | "mq" | "hyde" | "ans"
    cQuestion,   \* its question
    cContext,    \* its context (answerWithContextCached)
    cKey,        \* its key
    cOut,        \* what it returned
    cOrigin,     \* for each answer-cache key, the question and context it was stored for
    argv,        \* main: process.argv.slice(2)
    enableMulti, \* ENABLE_MULTI_QUERY
    enableHyde,  \* ENABLE_HYDE
    disk,        \* the three cache files and the index file
    mpc,         \* main: where it stands
    question,    \* main: question
    rewrites,    \* main: rewrites
    hyde,        \* main: hyde
    variantTexts,\* main: variantTexts
    context,     \* main: context
    answer,      \* main: answer
    console,     \* what the run wrote to the console, in order
    exitCode,    \* <<>> while the process runs, <<n>> once it has exited with n
    ioLog,       \* every file read and written by the run, in order
    mCaught      \* every error a catch of main or main().catch received, in order

retryVars == <<rpc, label, maxRetries, attempt, fnLog, warnLog, waitLog, retResult>>

storeVars == <<store, sop, sQueries, sTopK, sFinalTopK, sOut>>

pickVars == <<pop, pHits, pK, pLambda, pMinKeep, pOut>>

embedVars == <<embedCache, epc, eTexts, eMissIndexes, eWrapped, eRequests, eOut,
               eCacheBefore, ePrev>>

keyVars == <<genModel, embedModel, kBuilt>>

\* the state of the operations specified further down
cachedVars ==
    <<augmentCache, answerCache, cpc, cOp, cQuestion, cContext, cKey, cOut, cOrigin>>

mainEnv == <<argv, enableMulti, enableHyde>>

mainData == <<question, rewrites, hyde, variantTexts, context, answer>>

mainOut == <<console, exitCode, ioLog, mCaught>>

mainVars == <<mainEnv, mainData, mainOut, disk, mpc>>

restVars == <<keyVars, cachedVars, mainVars>>

vars == <<mode, retryVars, storeVars, pickVars, embedVars, restVars>>

-----------------------------------------------------------------------------
(* Small helpers *)

Min(a, b) == IF a < b THEN a ELSE b

Max(a, b) == IF a > b THEN a ELSE b

RECURSIVE Pow2(_)
Pow2(n) == IF n = 0 THEN 1 ELSE 2 * Pow2(n - 1)

Last(s) == s[Len(s)]

-----------------------------------------------------------------------------
(* Errors thrown by the external services *)

\* String.prototype.toLowerCase, word by word
LowerOf(w) ==
    CASE w = "Quota" -> "quota"
      [] w = "Rate" -> "rate"
      [] w = "Limit" -> "limit"
      [] w = "Too" -> "too"
      [] w = "Many" -> "many"
      [] w = "Requests" -> "requests"
      [] w = "Timeout" -> "timeout"
      [] w = "Temporarily" -> "temporarily"
      [] OTHER -> w

ToLowerCase(msg) == [i \in 1..Len(msg) |-> LowerOf(msg[i])]

\* String.prototype.includes, on words
Includes(msg, phrase) ==
    \E i \in 1..(Len(msg) - Len(phrase) + 1) :
        SubSeq(msg, i, i + Len(phrase) - 1) = phrase

NoInner == [code |-> "", message |-> <<>>]

MkErr(n, s, c, m, inner) ==
    [name |-> n, status |-> s, code |-> c, message |-> m, error |-> inner]

ErrQuota ==
    MkErr("quota", <<429>>, "insufficient_quota",
          <<"You", "exceeded", "your", "current", "Quota">>, NoInner)

ErrQuotaAndRate ==
    MkErr("quota+rate", <<429>>, "",
          <<"quota", "exhausted", "Rate", "Limit", "reached">>, NoInner)

ErrQuotaAndTransient ==
    MkErr("quota+transient", <<429>>, "insufficient_quota",
          <<"service", "Temporarily", "unavailable">>, NoInner)

ErrRateCode ==
    MkErr("rate", <<429>>, "rate_limit_exceeded", <<"slow", "down">>, NoInner)

ErrRateNested ==
    MkErr("rate-nested", <<429>>, "", <<>>,
          [code |-> "rate_limit_exceeded", message |-> <<"Too", "Many", "Requests">>])

ErrServer ==
    MkErr("server", <<503>>, "", <<"bad", "gateway">>, NoInner)

ErrTimeout ==
    MkErr("timeout", <<>>, "", <<"Request", "Timeout">>, NoInner)

ErrBadRequest ==
    MkErr("bad-request", <<400>>, "invalid_request", <<"bad", "input">>, NoInner)

ErrPlain429 ==
    MkErr("plain-429", <<429>>, "", <<"rejected">>, NoInner)

ErrTypeError ==
    MkErr("type-error", <<>>, "", <<"x", "is", "not", "a", "function">>, NoInner)

AllErrors ==
    { ErrQuota, ErrQuotaAndRate, ErrQuotaAndTransient, ErrRateCode, ErrRateNested,
      ErrServer, ErrTimeout, ErrBadRequest, ErrPlain429, ErrTypeError }

NoErr == MkErr("", <<>>, "", <<>>, NoInner)

\* classifyOpenAIError(err)
classifyOpenAIError(err) ==
    LET status == err.status
        code == IF err.code # "" THEN err.code ELSE err.error.code
        message == IF err.message # <<>> THEN err.message ELSE err.error.message
        lower == ToLowerCase(message)
    IN  [ status |-> status,
          code |-> code,
          message |-> message,
          isQuota |->
              /\ status = <<429>>
              /\ \/ code = "insufficient_quota"
                 \/ Includes(lower, <<"quota">>),
          isRateLimit |->
              /\ status = <<429>>
              /\ \/ code = "rate_limit_exceeded"
                 \/ Includes(lower, <<"rate", "limit">>)
                 \/ Includes(lower, <<"too", "many", "requests">>),
          isTransient |->
              \/ (Len(status) = 1 /\ status[1] >= 500 /\ status[1] <= 599)
              \/ Includes(lower, <<"timeout">>)
              \/ Includes(lower, <<"temporarily">>) ]

\* The four classes of section 4.5, in the order withRetry tests them
ClassOf(err) ==
    LET info == classifyOpenAIError(err)
    IN  IF info.isQuota THEN "Quota"
        ELSE IF info.isRateLimit THEN "RateLimit"
        ELSE IF info.isTransient THEN "Transient"
        ELSE "Other"

-----------------------------------------------------------------------------
(* withRetry *)

DefaultMaxRetries == 4

BackoffBaseMs == 500

BackoffCapMs == 8000

JitterSpanMs == 250

\* an outcome of one invocation of fn
Ok(v) == [ok |-> TRUE, value |-> v, err |-> NoErr]

Fail(e) == [ok |-> FALSE, value |-> "", err |-> e]

NoOutcome == [ok |-> FALSE, value |-> "", err |-> NoErr]

\* values of Math.floor(Math.random() * 250) the model draws
JitterOf(m) == IF m = "retry" THEN {0, JitterSpanMs - 1} ELSE {0}

\* errors the service throws in each mode; in a run of main the generation
\* service fails for a while with a server error, the embedding service with
\* a rate limit
ErrorsOf(m) ==
    IF m = "retry" THEN AllErrors
    ELSE IF m = "main" /\ label # "embeddings" THEN {ErrQuota, ErrServer, ErrBadRequest}
    ELSE {ErrQuota, ErrRateCode, ErrBadRequest}

ValuesOf(m) == {"v1", "v2"}

\* withRetry(fn, {label, maxRetries}) up to its first await
StartWithRetry(lbl, mr) ==
    /\ rpc' = "calling"
    /\ label' = lbl
    /\ maxRetries' = mr
    /\ attempt' = 0
    /\ fnLog' = <<>>
    /\ warnLog' = <<>>
    /\ waitLog' = <<>>
    /\ retResult' = NoOutcome

\* no call of withRetry is made: its locals are as before any call
NoRetryCall ==
    /\ rpc' = "idle"
    /\ label' = "operation"
    /\ maxRetries' = DefaultMaxRetries
    /\ attempt' = 0
    /\ fnLog' = <<>>
    /\ warnLog' = <<>>
    /\ waitLog' = <<>>
    /\ retResult' = NoOutcome

\* RetryCatch with the quota test made after the retry test
RetryCatchQuotaLate(err, jitter) ==
    LET info == classifyOpenAIError(err)
        canRetry == info.isRateLimit \/ info.isTransient
        backoffMs == Min(BackoffCapMs, BackoffBaseMs * Pow2(attempt)) + jitter
    IN  IF ~canRetry \/ attempt >= maxRetries
        THEN /\ rpc' = "thrown"
             /\ retResult' = Fail(err)
             /\ UNCHANGED <<warnLog, waitLog>>
        ELSE /\ rpc' = "backoff"
             /\ warnLog' = Append(warnLog,
                    [label |-> label, attempt |-> attempt + 1, backoffMs |-> backoffMs,
                     status |-> info.status, code |-> info.code])
             /\ waitLog' = Append(waitLog, backoffMs)
             /\ UNCHANGED retResult

\* RetryCatch with the budget test off by one (attempt > maxRetries)
RetryCatchOffByOne(err, jitter) ==
    LET info == classifyOpenAIError(err)
        canRetry == info.isRateLimit \/ info.isTransient
        backoffMs == Min(BackoffCapMs, BackoffBaseMs * Pow2(attempt)) + jitter
    IN  IF info.isQuota \/ ~canRetry \/ attempt > maxRetries
        THEN /\ rpc' = "thrown"
             /\ retResult' = Fail(err)
             /\ UNCHANGED <<warnLog, waitLog>>
        ELSE /\ rpc' = "backoff"
             /\ warnLog' = Append(warnLog,
                    [label |-> label, attempt |-> attempt + 1, backoffMs |-> backoffMs,
                     status |-> info.status, code |-> info.code])
             /\ waitLog' = Append(waitLog, backoffMs)
             /\ UNCHANGED retResult

\* RetryCatch whose backoff doubles from the first retry on: 500 * 2^(attempt + 1)
RetryCatchDoubleFirst(err, jitter) ==
    LET info == classifyOpenAIError(err)
        canRetry == info.isRateLimit \/ info.isTransient
        backoffMs == Min(BackoffCapMs, BackoffBaseMs * Pow2(attempt + 1)) + jitter
    IN  IF info.isQuota
        THEN /\ rpc' = "thrown"
             /\ retResult' = Fail(err)
             /\ UNCHANGED <<warnLog, waitLog>>
        ELSE IF ~canRetry \/ attempt >= maxRetries
        THEN /\ rpc' = "thrown"
             /\ retResult' = Fail(err)
             /\ UNCHANGED <<warnLog, waitLog>>
        ELSE /\ rpc' = "backoff"
             /\ warnLog' = Append(warnLog,
                    [label |-> label, attempt |-> attempt + 1, backoffMs |-> backoffMs,
                     status |-> info.status, code |-> info.code])
             /\ waitLog' = Append(waitLog, backoffMs)
             /\ UNCHANGED retResult

\* the catch block of withRetry for the error err
RetryCatch(err, jitter) ==
    LET info == classifyOpenAIError(err)
        canRetry == info.isRateLimit \/ info.isTransient
        backoffMs == Min(BackoffCapMs, BackoffBaseMs * Pow2(attempt)) + jitter
    IN  IF info.isQuota
        THEN /\ rpc' = "thrown"
             /\ retResult' = Fail(err)
             /\ UNCHANGED <<warnLog, waitLog>>
        ELSE IF ~canRetry \/ attempt >= maxRetries
        THEN /\ rpc' = "thrown"
             /\ retResult' = Fail(err)
             /\ UNCHANGED <<warnLog, waitLog>>
        ELSE /\ rpc' = "backoff"
             /\ warnLog' = Append(warnLog,
                    [label |-> label, attempt |-> attempt + 1, backoffMs |-> backoffMs,
                     status |-> info.status, code |-> info.code])
             /\ waitLog' = Append(waitLog, backoffMs)
             /\ UNCHANGED retResult

\* RetryStep with "return fn()" in place of "return await fn()": a rejection
\* of fn bypasses the catch block
RetryStepNoAwait(outcome, jitter) ==
    /\ rpc = "calling"
    /\ fnLog' = Append(fnLog, outcome)
    /\ rpc' = IF outcome.ok THEN "returned" ELSE "thrown"
    /\ retResult' = outcome
    /\ UNCHANGED <<warnLog, waitLog, label, maxRetries, attempt>>

\* one invocation of fn and what withRetry does with its outcome
RetryStep(outcome, jitter) ==
    /\ rpc = "calling"
    /\ fnLog' = Append(fnLog, outcome)
    /\ IF outcome.ok
       THEN /\ rpc' = "returned"
            /\ retResult' = outcome
            /\ UNCHANGED <<warnLog, waitLog>>
       ELSE RetryCatch(outcome.err, jitter)
    /\ UNCHANGED <<label, maxRetries, attempt>>

\* the timer of the backoff fires: attempt++ and the loop goes round
BackoffElapsed ==
    /\ rpc = "backoff"
    /\ rpc' = "calling"
    /\ attempt' = attempt + 1
    /\ UNCHANGED <<mode, label, maxRetries, fnLog, warnLog, waitLog, retResult>>
    /\ UNCHANGED <<storeVars, pickVars, embedVars, restVars>>

-----------------------------------------------------------------------------
(* Specification SpecRetry: one call of withRetry around an arbitrary fn *)

InitRetryIdle ==
    /\ rpc = "idle"
    /\ label = "operation"
    /\ maxRetries = DefaultMaxRetries
    /\ attempt = 0
    /\ fnLog = <<>>
    /\ warnLog = <<>>
    /\ waitLog = <<>>
    /\ retResult = NoOutcome

InitStoreIdle ==
    /\ store = <<>>
    /\ sop = "none"
    /\ sQueries = <<>>
    /\ sTopK = 0
    /\ sFinalTopK = 0
    /\ sOut = <<>>

InitPickIdle ==
    /\ pop = "none"
    /\ pHits = <<>>
    /\ pK = 0
    /\ pLambda = 0
    /\ pMinKeep = 0
    /\ pOut = <<>>

NoCall == [status |-> "none", texts |-> <<>>, out |-> <<>>, wrapped |-> 0,
           requests |-> 0, retries |-> 0, cacheBefore |-> <<>>]

\* readJsonSafe found no cache file: {}
EmptyCache == <<>>

InitEmbedIdle ==
    /\ embedCache = EmptyCache
    /\ epc = "idle"
    /\ eTexts = <<>>
    /\ eMissIndexes = <<>>
    /\ eWrapped = 0
    /\ eRequests = <<>>
    /\ eOut = <<>>
    /\ eCacheBefore = EmptyCache
    /\ ePrev = NoCall

\* the models named by the defaults, no key built
InitKeysIdle ==
    /\ genModel = <<>>
    /\ embedModel = <<>>
    /\ kBuilt = {}

\* a JavaScript value: undefined, a string (its UTF-16 code units, or the
\* tokens of a JSON text), an array
Undef == [t |-> "undefined", v |-> <<>>]

Str(s) == [t |-> "string", v |-> s]

List(l) == [t |-> "array", v |-> l]

InitCachedIdle ==
    /\ augmentCache = EmptyCache
    /\ answerCache = EmptyCache
    /\ cpc = "idle"
    /\ cOp = "none"
    /\ cQuestion = <<>>
    /\ cContext = <<>>
    /\ cKey = <<>>
    /\ cOut = Undef
    /\ cOrigin = EmptyCache

\* a file that is not there, one that is not JSON, one that holds the object data
NoFile == [kind |-> "absent", data |-> <<>>]

Corrupt == [kind |-> "corrupt", data |-> <<>>]

JsonFile(data) == [kind |-> "json", data |-> data]

\* main's locals before main runs
InitMainData ==
    /\ question = <<>>
    /\ rewrites = <<>>
    /\ hyde = Str(<<>>)
    /\ variantTexts = <<>>
    /\ context = <<>>
    /\ answer = Undef
    /\ console = <<>>
    /\ exitCode = <<>>
    /\ ioLog = <<>>
    /\ mCaught = <<>>

InitMainIdle ==
    /\ argv = <<>>
    /\ enableMulti = TRUE
    /\ enableHyde = TRUE
    /\ disk = [embed |-> NoFile, augment |-> NoFile, answer |-> NoFile, index |-> NoFile]
    /\ mpc = "none"
    /\ InitMainData

InitRestIdle ==
    /\ InitKeysIdle
    /\ InitCachedIdle
    /\ InitMainIdle

InitRetry ==
    /\ mode = "retry"
    /\ InitRetryIdle
    /\ InitStoreIdle
    /\ InitPickIdle
    /\ InitEmbedIdle
    /\ InitRestIdle

\* withRetry(fn) or withRetry(fn, {maxRetries})
CallWithRetry ==
    /\ mode = "retry"
    /\ rpc = "idle"
    /\ \E mr \in 0..DefaultMaxRetries : StartWithRetry("operation", mr)
    /\ UNCHANGED <<mode, storeVars, pickVars, embedVars, restVars>>

\* fn runs to its end: it returns a value or throws
FnSettles ==
    /\ mode = "retry"
    /\ \E outcome \in {Ok(v) : v \in ValuesOf(mode)} \cup {Fail(e) : e \in ErrorsOf(mode)},
          jitter \in JitterOf(mode) :
            RetryStep(outcome, jitter)
    /\ UNCHANGED <<mode, storeVars, pickVars, embedVars, restVars>>

NextRetry ==
    \/ CallWithRetry
    \/ FnSettles
    \/ BackoffElapsed

SpecRetry == InitRetry /\ [][NextRetry]_vars

-----------------------------------------------------------------------------
(* LocalVectorStore *)

Scale == 10

\* embeddings of norm Scale
EmbedVecs == { <<10, 0>>, <<8, 6>>, <<6, 8>>, <<0, 10>> }

QueryVecs == { <<10, 0>>, <<8, 6>>, <<0, 10>> }

MaxItems == 3

MaxQueries == 2

MaxTopK == 2

\* cosineSimUnitVectors(a, b): the dot product
RECURSIVE DotUpTo(_, _, _)
DotUpTo(a, b, n) == IF n = 0 THEN 0 ELSE DotUpTo(a, b, n - 1) + a[n] * b[n]

cosineSimUnitVectors(a, b) == DotUpTo(a, b, Len(a))

\* the id loadAndChunkDocs gives the idx-th chunk of a file
ChunkId(idx) == <<"doc", idx>>

Item(idx, vec) == [id |-> ChunkId(idx), chunkIndex |-> idx, embeddingUnit |-> vec]

\* the index file's items: chunk i of the corpus at position i+1
Stores ==
    UNION { { [i \in 1..n |-> Item(i - 1, f[i])] : f \in [1..n -> EmbedVecs] } : n \in 0..MaxItems }

\* Array.prototype.slice(0, end)
SliceTo(s, end) ==
    LET e == IF end < 0 THEN Max(Len(s) + end, 0) ELSE Min(end, Len(s))
    IN  SubSeq(s, 1, e)

\* InsertDesc that puts x before the hits of equal score (an unstable sort)
InsertDescBeforeTies(t, x) ==
    LET k == Cardinality({i \in 1..Len(t) : t[i].score > x.score})
    IN  SubSeq(t, 1, k) \o <<x>> \o SubSeq(t, k + 1, Len(t))

\* one insertion of the stable sort by (a, b) => b.score - a.score: x, which
\* came after every hit of t in the array, goes after the hits of t that do
\* not compare after it
InsertDesc(t, x) ==
    LET k == Cardinality({i \in 1..Len(t) : t[i].score >= x.score})
    IN  SubSeq(t, 1, k) \o <<x>> \o SubSeq(t, k + 1, Len(t))

\* Array.prototype.sort((a, b) => b.score - a.score), which is stable
RECURSIVE SortDesc(_)
SortDesc(s) ==
    IF s = <<>> THEN <<>>
    ELSE InsertDesc(SortDesc(SubSeq(s, 1, Len(s) - 1)), Last(s))

\* LocalVectorStore.search(queryEmbeddingUnit, {topK})
search(items, q, topK) ==
    LET scored == [i \in 1..Len(items) |->
                     [item |-> items[i],
                      score |-> cosineSimUnitVectors(q, items[i].embeddingUnit)]]
    IN  SliceTo(SortDesc(scored), topK)

\* MergeHit without the comparison: the hit seen last wins
MergeHitLastWins(best, h) ==
    LET at == {i \in 1..Len(best) : best[i].item.id = h.item.id}
    IN  IF at = {} THEN Append(best, h)
        ELSE [i \in 1..Len(best) |-> IF i \in at THEN h ELSE best[i]]

\* best.get / best.set of searchMulti for one hit; best is the Map's values
\* in the Map's (first insertion) order
MergeHit(best, h) ==
    LET at == {i \in 1..Len(best) : best[i].item.id = h.item.id}
    IN  IF at = {} THEN Append(best, h)
        ELSE [i \in 1..Len(best) |->
                IF i \in at /\ h.score > best[i].score THEN h ELSE best[i]]

RECURSIVE MergeHits(_, _)
MergeHits(best, hits) ==
    IF hits = <<>> THEN best
    ELSE MergeHits(MergeHit(best, Head(hits)), Tail(hits))

\* the for loop of searchMulti over the query vectors
RECURSIVE MergeQueries(_, _, _, _)
MergeQueries(items, best, qs, perQueryTopK) ==
    IF qs = <<>> THEN best
    ELSE MergeQueries(items, MergeHits(best, search(items, Head(qs), perQueryTopK)),
                      Tail(qs), perQueryTopK)

\* searchMulti that cuts to finalTopK before it sorts
searchMultiSliceFirst(items, qs, perQueryTopK, finalTopK) ==
    SortDesc(SliceTo(MergeQueries(items, <<>>, qs, perQueryTopK), finalTopK))

\* LocalVectorStore.searchMulti(queryEmbeddingUnits, {perQueryTopK, finalTopK})
searchMulti(items, qs, perQueryTopK, finalTopK) ==
    SliceTo(SortDesc(MergeQueries(items, <<>>, qs, perQueryTopK)), finalTopK)

QuerySeqs == UNION { [1..n -> QueryVecs] : n \in 0..MaxQueries }

\* store.search(q, {topK})
Search ==
    /\ mode = "store"
    /\ sop = "none"
    /\ \E q \in QueryVecs, topK \in 0..MaxTopK :
          /\ sop' = "search"
          /\ sQueries' = <<q>>
          /\ sTopK' = topK
          /\ sFinalTopK' = 0
          /\ sOut' = search(store, q, topK)
    /\ UNCHANGED <<mode, store, retryVars, pickVars, embedVars, restVars>>

\* store.searchMulti(qs, {perQueryTopK, finalTopK})
SearchMulti ==
    /\ mode = "store"
    /\ sop = "none"
    /\ \E qs \in QuerySeqs, perQueryTopK \in 0..MaxTopK, finalTopK \in 0..MaxTopK :
          /\ sop' = "searchMulti"
          /\ sQueries' = qs
          /\ sTopK' = perQueryTopK
          /\ sFinalTopK' = finalTopK
          /\ sOut' = searchMulti(store, qs, perQueryTopK, finalTopK)
    /\ UNCHANGED <<mode, store, retryVars, pickVars, embedVars, restVars>>

\* Specification SpecStore: a loaded index and one call of search or searchMulti
InitStore ==
    /\ mode = "store"
    /\ InitRetryIdle
    /\ store \in Stores
    /\ sop = "none"
    /\ sQueries = <<>>
    /\ sTopK = 0
    /\ sFinalTopK = 0
    /\ sOut = <<>>
    /\ InitPickIdle
    /\ InitEmbedIdle
    /\ InitRestIdle

NextStore ==
    \/ Search
    \/ SearchMulti

SpecStore == InitStore /\ [][NextStore]_vars

-----------------------------------------------------------------------------
(* pickDiverse *)

LambdaDen == 10

\* lambda = 0.8 and minKeep = 0.1, the defaults, in units of 1/LambdaDen
DefaultLambda == 8

DefaultMinKeep == 1

MaxHits == 3

MaxK == 3

\* the inner loop over pickedEmbeds: the largest dot product with a picked
\* embedding, starting from 0
RECURSIVE MaxSimToPicked(_, _, _)
MaxSimToPicked(a, pickedEmbeds, acc) ==
    IF pickedEmbeds = <<>> THEN acc
    ELSE LET sim == DotUpTo(a, Head(pickedEmbeds), Len(a))
         IN  MaxSimToPicked(a, Tail(pickedEmbeds), IF sim > acc THEN sim ELSE acc)

\* lambda * h.score - (1 - lambda) * maxSimToPicked, in units of
\* 1/(LambdaDen * Scale * Scale)
MmrScore(h, picked, lambda) ==
    LET maxSimToPicked ==
            MaxSimToPicked(h.item.embeddingUnit,
                           [i \in 1..Len(picked) |-> picked[i].item.embeddingUnit], 0)
    IN  lambda * h.score - (LambdaDen - lambda) * maxSimToPicked

\* PickAccept without "picked.length === 0 ||"
PickAcceptNoBootstrap(h, picked, lambda, minKeep) ==
    MmrScore(h, picked, lambda) > minKeep * Scale * Scale

\* the test "picked.length === 0 || mmrScore > minKeep"
PickAccept(h, picked, lambda, minKeep) ==
    \/ Len(picked) = 0
    \/ MmrScore(h, picked, lambda) > minKeep * Scale * Scale

\* the for loop of pickDiverse over the hits that are left
RECURSIVE PickLoop(_, _, _, _, _)
PickLoop(hits, picked, k, lambda, minKeep) ==
    IF hits = <<>> \/ Len(picked) >= k THEN picked
    ELSE PickLoop(Tail(hits),
                  IF PickAccept(Head(hits), picked, lambda, minKeep)
                  THEN Append(picked, Head(hits)) ELSE picked,
                  k, lambda, minKeep)

\* pickDiverse that picks hits[0] before a loop that starts at hits[0] again
pickDiverseSeedTwice(hits, k, lambda, minKeep) ==
    IF hits = <<>> \/ k <= 0 THEN <<>>
    ELSE PickLoop(hits, <<Head(hits)>>, k, lambda, minKeep)

\* pickDiverse(hits, {k, lambda, minKeep})
pickDiverse(hits, k, lambda, minKeep) ==
    PickLoop(hits, <<>>, k, lambda, minKeep)

\* the chunks and scores pickDiverse is tried on; a list may name a chunk twice
PickItems == { Item(0, <<10, 0>>), Item(1, <<8, 6>>), Item(2, <<-10, 0>>) }

PickScores == {10, 90}

PickHits == [item : PickItems, score : PickScores]

PickLambdas == {0, 5, DefaultLambda, LambdaDen}

PickMinKeeps == {0, DefaultMinKeep}

\* embeddings of the three merged hits A, B, C of the redundancy scenario:
\* the similarity of two of them goes from -1 to 1
ScenarioVecs == { <<10, 0>>, <<8, 6>>, <<0, 10>>, <<-8, 6>>, <<-10, 0>> }

\* merged hits [A (score 0.91), B (0.89), C (0.86)], scores in units of
\* 1/(Scale * Scale)
ScenarioHits ==
    { << [item |-> Item(0, a), score |-> 91],
         [item |-> Item(1, b), score |-> 89],
         [item |-> Item(2, c), score |-> 86] >> : a, b, c \in ScenarioVecs }

\* how many hits the for loop gets past "if (picked.length >= k) break" with
RECURSIVE PickEvaluated(_, _, _, _, _)
PickEvaluated(hits, picked, k, lambda, minKeep) ==
    IF hits = <<>> \/ Len(picked) >= k THEN 0
    ELSE 1 + PickEvaluated(Tail(hits),
                           IF PickAccept(Head(hits), picked, lambda, minKeep)
                           THEN Append(picked, Head(hits)) ELSE picked,
                           k, lambda, minKeep)

\* pickDiverse(hits, {k, lambda, minKeep})
PickDiverse ==
    /\ mode = "pick"
    /\ pop = "none"
    /\ pop' = "done"
    /\ pOut' = pickDiverse(pHits, pK, pLambda, pMinKeep)
    /\ UNCHANGED <<mode, pHits, pK, pLambda, pMinKeep, retryVars, storeVars, embedVars,
                   restVars>>

\* Specification SpecPick: one call of pickDiverse on any hit list
InitPick ==
    /\ mode = "pick"
    /\ InitRetryIdle
    /\ InitStoreIdle
    /\ pop = "none"
    /\ pHits \in UNION { [1..n -> PickHits] : n \in 0..MaxHits } \cup ScenarioHits
    /\ pK \in 0..MaxK
    /\ pLambda \in PickLambdas
    /\ pMinKeep \in PickMinKeeps
    /\ pOut = <<>>
    /\ InitEmbedIdle
    /\ InitRestIdle

NextPick == PickDiverse

SpecPick == InitPick /\ [][NextPick]_vars

-----------------------------------------------------------------------------
(* hashKey and the embedding cache *)

\* a ^ b on the low n bits
RECURSIVE XorBits(_, _, _)
XorBits(a, b, n) ==
    IF n = 0 THEN 0
    ELSE LET w == Pow2(n - 1)
         IN  ((((a \div w) % 2) + ((b \div w) % 2)) % 2) * w + XorBits(a, b, n - 1)

\* one round of the loop of hashKey on h = hi * 2^16 + lo, for the UTF-16
\* code unit c: h ^= c; h = Math.imul(h, 16777619), where
\* 16777619 = 2^24 + 403 and the product is taken modulo 2^32
FnvRound(h, c) ==
    LET lo == XorBits(h[2], c, 16)
        p == lo * 403
    IN  << (((lo % 256) * 256) + (h[1] * 403) + (p \div 65536)) % 65536, p % 65536 >>

\* the rounds of the loop of hashKey for the code units of x[2], first to
\* last, from the state x[1]
FnvRounds[x \in (Nat \X Nat) \X Seq(Nat)] ==
    IF Len(x[2]) = 0 THEN x[1]
    ELSE FnvRounds[<< FnvRound(x[1], Head(x[2])), Tail(x[2]) >>]

\* the loop of hashKey: the rounds for the code units of s, first to last,
\* taken sixteen code units at a time
FnvFold[x \in (Nat \X Nat) \X Seq(Nat)] ==
    IF Len(x[2]) = 0 THEN x[1]
    ELSE LET b == IF Len(x[2]) < 16 THEN Len(x[2]) ELSE 16
         IN  FnvFold[<< FnvRounds[<< x[1], SubSeq(x[2], 1, b) >>],
                        SubSeq(x[2], b + 1, Len(x[2])) >>]

HexChar(d) ==
    <<"0", "1", "2", "3", "4", "5", "6", "7", "8", "9", "a", "b", "c", "d", "e", "f">>[d + 1]

\* Number.prototype.toString(16) of n >= 0: no leading zeros
RECURSIVE HexOf(_)
HexOf(n) == IF n < 16 THEN <<HexChar(n)>> ELSE HexOf(n \div 16) \o <<HexChar(n % 16)>>

\* (h >>> 0).toString(16) of h = hi * 2^16 + lo
ToString16(h) ==
    IF h[1] = 0 THEN HexOf(h[2])
    ELSE HexOf(h[1]) \o << HexChar(h[2] \div 4096), HexChar((h[2] \div 256) % 16),
                           HexChar((h[2] \div 16) % 16), HexChar(h[2] % 16) >>

\* hashKey(s): FNV-1a from 2166136261 = 33052 * 2^16 + 40389, as hex digits;
\* s is the sequence of the UTF-16 code units of the string
hashKey(s) == ToString16(FnvFold[<< <<33052, 40389>>, s >>])

\* A key, like a model identifier, is the sequence of its characters.

\* "gpt-4.1-mini", the default of GEN_MODEL
GEN_MODEL == <<"g", "p", "t", "-", "4", ".", "1", "-", "m", "i", "n", "i">>

\* "text-embedding-3-small", the default of EMBED_MODEL
EMBED_MODEL ==
    <<"t", "e", "x", "t", "-", "e", "m", "b", "e", "d", "d", "i", "n", "g", "-", "3", "-",
      "s", "m", "a", "l", "l">>

\* `emb:${EMBED_MODEL}:${hashKey(t)}` for the embedding model em
EmbedKeyFor(em, t) == <<"e", "m", "b", ":">> \o em \o <<":">> \o hashKey(t)

\* `emb:${EMBED_MODEL}:${hashKey(t)}`
EmbedKey(t) == EmbedKeyFor(EMBED_MODEL, t)

\* `mq:${GEN_MODEL}:${hashKey(question)}` for the generation model gm
MultiQueryKey(gm, qn) == <<"m", "q", ":">> \o gm \o <<":">> \o hashKey(qn)

\* HydeKey with the prefix of the rewrite entry
HydeKeySamePrefix(gm, qn) == <<"m", "q", ":">> \o gm \o <<":">> \o hashKey(qn)

\* `hyde:${GEN_MODEL}:${hashKey(question)}` for the generation model gm
HydeKey(gm, qn) ==
    <<"h", "y", "d", "e", ":">> \o gm \o <<":">> \o hashKey(qn)

\* `ans:${GEN_MODEL}:${hashKey(question)}:${hashKey(context)}`
AnswerKey(gm, qn, ctx) ==
    <<"a", "n", "s", ":">> \o gm \o <<":">> \o hashKey(qn) \o <<":">> \o hashKey(ctx)

\* the texts embedded: "a", and "gwzx" and "16cd", which hashKey maps to
\* the same 6b3e8b99
EmbedTexts == { <<97>>, <<103, 119, 122, 120>>, <<49, 54, 99, 100>> }

\* keys = texts.map((t) => `emb:${EMBED_MODEL}:${hashKey(t)}`), text by text
\* ("@@ <<>>" has the table computed once, as a value)
KeyOf == [t \in EmbedTexts \cup {<<113>>, <<98>>} |-> EmbedKey(t)] @@ <<>>

MaxBatch == 2

\* unit vectors embedTexts returns
ResponseVecs == { <<10, 0>>, <<0, 10>> }

\* cache[k] = v
CachePut(cache, k, v) ==
    [x \in (DOMAIN cache) \cup {k} |-> IF x = k THEN v ELSE cache[x]]

\* the value of a property that is not there
Undefined == <<>>

\* cache[k]
CacheGet(cache, k) == IF k \in DOMAIN cache THEN cache[k] ELSE Undefined

\* CacheMiss that looks the text up where the key should be: nothing is found
CacheMissWrongLookup(cache, k) == TRUE

\* !embedCache[k]: no entry under k (an entry is an array, which is truthy)
CacheMiss(cache, k) == CacheGet(cache, k) = Undefined

\* keys.forEach((k, i) => { if (!embedCache[k]) { ... missIndexes.push(i) } }),
\* from index i on; indexes are 1-based here
RECURSIVE MissIndexesFrom(_, _, _)
MissIndexesFrom(texts, cache, i) ==
    IF i > Len(texts) THEN <<>>
    ELSE (IF CacheMiss(cache, KeyOf[texts[i]]) THEN <<i>> ELSE <<>>)
         \o MissIndexesFrom(texts, cache, i + 1)

\* misses: texts[i] for the i of missIndexes
MissesOf(texts, missIndexes) == [j \in 1..Len(missIndexes) |-> texts[missIndexes[j]]]

\* vectors.forEach((v, j) => { embedCache[keys[missIndexes[j]]] = v }), from j on
RECURSIVE StoreVectors(_, _, _, _, _)
StoreVectors(cache, texts, missIndexes, vectors, j) ==
    IF j > Len(vectors) THEN cache
    ELSE StoreVectors(CachePut(cache, KeyOf[texts[missIndexes[j]]], vectors[j]),
                      texts, missIndexes, vectors, j + 1)

\* keys.map((k) => embedCache[k])
CachedVectors(cache, texts) == [i \in 1..Len(texts) |-> CacheGet(cache, KeyOf[texts[i]])]

\* the invocation that has ended, as the next one will remember it
Ended ==
    IF epc \in {"returned", "thrown"}
    THEN [status |-> epc, texts |-> eTexts, out |-> eOut, wrapped |-> eWrapped,
          requests |-> Len(eRequests), retries |-> Len(warnLog),
          cacheBefore |-> eCacheBefore]
    ELSE NoCall

\* embedTextsCached(texts, embedCache) up to its await, or to its end when
\* every text is cached
EmbedStart(texts) ==
    LET missIndexes == MissIndexesFrom(texts, embedCache, 1)
    IN  /\ eTexts' = texts
        /\ eMissIndexes' = missIndexes
        /\ eCacheBefore' = embedCache
        /\ ePrev' = Ended
        /\ eRequests' = <<>>
        /\ IF Len(missIndexes) > 0
           THEN /\ StartWithRetry("embeddings", DefaultMaxRetries)
                /\ eWrapped' = 1
                /\ epc' = "waiting"
                /\ eOut' = <<>>
           ELSE /\ NoRetryCall
                /\ eWrapped' = 0
                /\ epc' = "returned"
                /\ eOut' = CachedVectors(embedCache, texts)

\* embedTextsCached(texts, embedCache) for any batch of texts
EmbedCall ==
    /\ mode = "embed"
    /\ epc \in {"idle", "returned", "thrown"}
    /\ \E texts \in UNION { [1..n -> EmbedTexts] : n \in 0..MaxBatch } : EmbedStart(texts)
    /\ UNCHANGED <<mode, embedCache, storeVars, pickVars, restVars>>

\* fn = () => embedTexts(misses, {model: EMBED_MODEL}) runs to its end: one
\* unit vector per missed text, or an error
EmbedFnSettles ==
    /\ mode \in {"embed", "main"}
    /\ epc = "waiting"
    /\ LET misses == MissesOf(eTexts, eMissIndexes)
       IN  /\ eRequests' = Append(eRequests, misses)
           /\ \E outcome \in {Ok(vs) : vs \in [1..Len(misses) -> ResponseVecs]}
                                \cup {Fail(e) : e \in ErrorsOf(mode)},
                 jitter \in JitterOf(mode) :
                   RetryStep(outcome, jitter)
    /\ UNCHANGED <<mode, embedCache, epc, eTexts, eMissIndexes, eWrapped, eOut,
                   eCacheBefore, ePrev, storeVars, pickVars, restVars>>

\* embedTextsCached after "await withRetry(...)": the vectors are stored and
\* the list is returned, or the error of withRetry leaves the function
EmbedResume ==
    /\ mode \in {"embed", "main"}
    /\ epc = "waiting"
    /\ rpc \in {"returned", "thrown"}
    /\ IF rpc = "returned"
       THEN LET cache == StoreVectors(embedCache, eTexts, eMissIndexes, retResult.value, 1)
            IN  /\ embedCache' = cache
                /\ eOut' = CachedVectors(cache, eTexts)
                /\ epc' = "returned"
       ELSE /\ epc' = "thrown"
            /\ UNCHANGED <<embedCache, eOut>>
    /\ UNCHANGED <<mode, eTexts, eMissIndexes, eWrapped, eRequests, eCacheBefore, ePrev,
                   retryVars, storeVars, pickVars, restVars>>

\* Specification SpecEmbed: embedTextsCached called again and again on one
\* cache object that starts empty
InitEmbed ==
    /\ mode = "embed"
    /\ InitRetryIdle
    /\ InitStoreIdle
    /\ InitPickIdle
    /\ InitEmbedIdle
    /\ InitRestIdle

NextEmbed ==
    \/ EmbedCall
    \/ EmbedFnSettles
    \/ BackoffElapsed
    \/ EmbedResume

SpecEmbed == InitEmbed /\ [][NextEmbed]_vars

-----------------------------------------------------------------------------
(* getMultiQueriesCached, getHydeCached, answerWithContextCached *)

\* Boolean(x) of a JavaScript value: undefined and "" are falsy, an array
\* (empty or not) and a non-empty string are truthy
Truthy(x) == x.t = "array" \/ (x.t = "string" /\ Len(x.v) > 0)

\* white space in a text of code units (space, tab, line feed) and in a
\* text of tokens
CodeBlanks == {32, 9, 10}

TokenBlanks == {" "}

RECURSIVE TrimLeft(_, _)
TrimLeft(s, blanks) ==
    IF Len(s) > 0 /\ Head(s) \in blanks THEN TrimLeft(Tail(s), blanks) ELSE s

RECURSIVE TrimRight(_, _)
TrimRight(s, blanks) ==
    IF Len(s) > 0 /\ Last(s) \in blanks THEN TrimRight(SubSeq(s, 1, Len(s) - 1), blanks) ELSE s

\* String.prototype.trim
Trim(s, blanks) == TrimRight(TrimLeft(s, blanks), blanks)

\* cache[k] of the augmentation and answer caches
CacheGetJs(cache, k) == IF k \in DOMAIN cache THEN cache[k] ELSE Undef

\* the string literals of the JSON texts the generation service returns, and
\* the strings they denote
LiteralValue(tok) ==
    CASE tok = "\"a\"" -> <<97>>
      [] tok = "\"b\"" -> <<98>>
      [] tok = "\"\"" -> <<>>
      [] tok = "\"queries\"" -> <<113, 117, 101, 114, 105, 101, 115>>

IsLiteral(tok) == tok \in {"\"a\"", "\"b\"", "\"\"", "\"queries\""}

\* the elements of a JSON array: literals separated by commas
IsElements(e) ==
    \/ Len(e) = 0
    \/ /\ Len(e) % 2 = 1
       /\ \A i \in 1..Len(e) : IF i % 2 = 1 THEN IsLiteral(e[i]) ELSE e[i] = ","

ElementsOf(e) == [i \in 1..((Len(e) + 1) \div 2) |-> Str(LiteralValue(e[2 * i - 1]))]

\* JSON.parse(raw) of a text of tokens, as far as getMultiQueriesCached looks
\* at the result: whether it threw, the kind of value, and its property
\* "queries"
JSONParse(raw) ==
    LET n == Len(raw)
        IsQueriesObject ==
            /\ n >= 5
            /\ raw[1] = "{"
            /\ raw[2] = "\"queries\""
            /\ raw[3] = ":"
            /\ raw[n] = "}"
    IN  IF raw = <<"null">> THEN [ok |-> TRUE, t |-> "null", queries |-> Undef]
        ELSE IF raw = <<"[", "]">> THEN [ok |-> TRUE, t |-> "array", queries |-> Undef]
        ELSE IF raw = <<"{", "}">> THEN [ok |-> TRUE, t |-> "object", queries |-> Undef]
        ELSE IF IsQueriesObject /\ n = 5 /\ IsLiteral(raw[4])
        THEN [ok |-> TRUE, t |-> "object", queries |-> Str(LiteralValue(raw[4]))]
        ELSE IF IsQueriesObject /\ n >= 6 /\ raw[4] = "[" /\ raw[n - 1] = "]"
                /\ IsElements(SubSeq(raw, 5, n - 2))
        THEN [ok |-> TRUE, t |-> "object",
              queries |-> List(ElementsOf(SubSeq(raw, 5, n - 2)))]
        ELSE [ok |-> FALSE, t |-> "", queries |-> Undef]

\* parsed.queries.slice(0, 3)
MaxRewrites == 3

\* ParseQueries that keeps every entry of parsed.queries
ParseQueriesNoSlice(outputText) ==
    LET raw == IF Truthy(outputText) THEN Trim(outputText.v, TokenBlanks) ELSE <<>>
        parsed == JSONParse(raw)
    IN  IF ~parsed.ok THEN List(<<>>)
        ELSE IF parsed.t = "null" THEN List(<<>>)
        ELSE IF parsed.queries.t = "array" THEN parsed.queries
        ELSE List(<<>>)

\* ParseQueries that lets the SyntaxError of JSON.parse leave the function
ParseQueriesThrows(outputText) ==
    LET raw == IF Truthy(outputText) THEN Trim(outputText.v, TokenBlanks) ELSE <<>>
        parsed == JSONParse(raw)
    IN  IF ~parsed.ok THEN Undef
        ELSE IF parsed.t = "null" THEN List(<<>>)
        ELSE IF parsed.queries.t = "array"
        THEN List(SliceTo(parsed.queries.v, MaxRewrites))
        ELSE List(<<>>)

\* getMultiQueriesCached from "const raw" to "queries": raw is
\* resp.output_text?.trim() || ""; a SyntaxError of JSON.parse and the
\* TypeError of null.queries are caught
ParseQueries(outputText) ==
    LET raw == IF Truthy(outputText) THEN Trim(outputText.v, TokenBlanks) ELSE <<>>
        parsed == JSONParse(raw)
    IN  IF ~parsed.ok THEN List(<<>>)
        ELSE IF parsed.t = "null" THEN List(<<>>)
        ELSE IF parsed.queries.t = "array"
        THEN List(SliceTo(parsed.queries.v, MaxRewrites))
        ELSE List(<<>>)

\* (resp.output_text || "").trim()
HydeOf(outputText) ==
    Str(Trim(IF Truthy(outputText) THEN outputText.v ELSE <<>>, CodeBlanks))

\* what each function makes of resp.output_text
ValueOfResponse(op, outputText) ==
    CASE op = "mq" -> ParseQueries(outputText)
      [] op = "hyde" -> HydeOf(outputText)
      [] op = "ans" -> outputText

\* the label each function gives withRetry
LabelOf(op) ==
    CASE op = "mq" -> "multi-query"
      [] op = "hyde" -> "hyde"
      [] op = "ans" -> "answer"

\* the key of answerWithContextCached under the default model
AnswerKeyOf(qn, ctx) == AnswerKey(GEN_MODEL, qn, ctx)

CachedOps == {"mq", "hyde", "ans"}

\* the questions: "q", "r"
CachedQuestions == { <<113>>, <<114>> }

\* the contexts: "c", "gwzx", "16cd"
CachedContexts == { <<99>>, <<103, 119, 122, 120>>, <<49, 54, 99, 100>> }

\* the key each function builds
BuildCachedKey(op, qn, ctx) ==
    CASE op = "mq" -> MultiQueryKey(GEN_MODEL, qn)
      [] op = "hyde" -> HydeKey(GEN_MODEL, qn)
      [] op = "ans" -> AnswerKeyOf(qn, ctx)

\* the keys of the questions and contexts above, built once
CachedKeyTable ==
    [x \in CachedOps \X CachedQuestions \X (CachedContexts \cup {<<>>}) |->
        BuildCachedKey(x[1], x[2], x[3])] @@ <<>>

CachedKey(op, qn, ctx) ==
    IF <<op, qn, ctx>> \in DOMAIN CachedKeyTable
    THEN CachedKeyTable[<<op, qn, ctx>>]
    ELSE BuildCachedKey(op, qn, ctx)

\* {"queries": [entries]}
QueriesDoc(entries) ==
    <<"{", "\"queries\"", ":", "[">> \o entries \o <<"]", "}">>

\* values of resp.output_text for the rewrite instructions
MultiQueryOutputs ==
    { Undef,
      Str(<<"Sure", "!">>),
      Str(<<"null">>),
      Str(<<"{", "}">>),
      Str(<<"{", "\"queries\"", ":", "\"a\"", "}">>),
      Str(<<" ">> \o QueriesDoc(<<>>)),
      Str(QueriesDoc(<<"\"a\"">>) \o <<" ">>),
      Str(QueriesDoc(<<"\"a\"", ",", "\"\"", ",", "\"b\"", ",", "\"a\"">>)) }

\* values of resp.output_text for the HyDE instructions: undefined, " ", " b"
HydeOutputs == { Undef, Str(<<32>>), Str(<<32, 98>>) }

\* values of resp.output_text for the answer instructions: "", "A"
AnswerOutputs == { Str(<<>>), Str(<<65>>) }

ResponsesOf(op) ==
    CASE op = "mq" -> MultiQueryOutputs
      [] op = "hyde" -> HydeOutputs
      [] op = "ans" -> AnswerOutputs

\* the cache object each function is given
CacheOf(op) == IF op = "ans" THEN answerCache ELSE augmentCache

\* CachedCall that puts undefined under the key before it awaits
CachedCallMarksPending(op, qn, ctx) ==
    LET key == CachedKey(op, qn, ctx)
        cached == CacheGetJs(CacheOf(op), key)
    IN  /\ cOp' = op
        /\ cQuestion' = qn
        /\ cContext' = ctx
        /\ cKey' = key
        /\ IF Truthy(cached)
           THEN /\ NoRetryCall
                /\ cpc' = "returned"
                /\ cOut' = cached
                /\ UNCHANGED <<augmentCache, answerCache>>
           ELSE /\ StartWithRetry(LabelOf(op), DefaultMaxRetries)
                /\ cpc' = "waiting"
                /\ cOut' = Undef
                /\ augmentCache' = IF op = "ans" THEN augmentCache
                                   ELSE CachePut(augmentCache, key, Undef)
                /\ answerCache' = IF op = "ans" THEN CachePut(answerCache, key, Undef)
                                  ELSE answerCache
        /\ UNCHANGED cOrigin

\* one of the three functions up to its await, or to its end on a cache hit
CachedCall(op, qn, ctx) ==
    LET key == CachedKey(op, qn, ctx)
        cached == CacheGetJs(CacheOf(op), key)
    IN  /\ cOp' = op
        /\ cQuestion' = qn
        /\ cContext' = ctx
        /\ cKey' = key
        /\ IF Truthy(cached)
           THEN /\ NoRetryCall
                /\ cpc' = "returned"
                /\ cOut' = cached
           ELSE /\ StartWithRetry(LabelOf(op), DefaultMaxRetries)
                /\ cpc' = "waiting"
                /\ cOut' = Undef
        /\ UNCHANGED <<augmentCache, answerCache, cOrigin>>

\* fn = () => client.responses.create({...}) runs to its end
CachedFnSettles ==
    /\ mode \in {"cached", "main"}
    /\ cpc = "waiting"
    /\ \E outcome \in {Ok(r) : r \in ResponsesOf(cOp)} \cup {Fail(e) : e \in ErrorsOf(mode)},
          jitter \in JitterOf(mode) :
            RetryStep(outcome, jitter)
    /\ UNCHANGED <<mode, storeVars, pickVars, embedVars, keyVars, cachedVars, mainVars>>

\* the function after "await withRetry(...)": the value is stored under the
\* key and returned, or the error of withRetry leaves the function
CachedResume ==
    /\ mode \in {"cached", "main"}
    /\ cpc = "waiting"
    /\ rpc \in {"returned", "thrown"}
    /\ IF rpc = "returned"
       THEN LET key == cKey
                value == ValueOfResponse(cOp, retResult.value)
            IN  /\ augmentCache' = IF cOp = "ans" THEN augmentCache
                                   ELSE CachePut(augmentCache, key, value)
                /\ answerCache' = IF cOp = "ans" THEN CachePut(answerCache, key, value)
                                  ELSE answerCache
                /\ cOrigin' = CachePut(cOrigin, key,
                                       [question |-> cQuestion, context |-> cContext])
                /\ cOut' = value
                /\ cpc' = "returned"
       ELSE /\ cpc' = "thrown"
            /\ UNCHANGED <<augmentCache, answerCache, cOrigin, cOut>>
    /\ UNCHANGED <<mode, cOp, cQuestion, cContext, cKey, retryVars, storeVars, pickVars,
                   embedVars, keyVars, mainVars>>

\* Specification SpecCached: the three functions called again and again on
\* cache objects that start empty; a behaviour works on one cache object

InitCached ==
    /\ mode = "cached"
    /\ InitRetryIdle
    /\ InitStoreIdle
    /\ InitPickIdle
    /\ InitEmbedIdle
    /\ InitRestIdle

\* getMultiQueriesCached(q, augmentCache), getHydeCached(q, augmentCache) or
\* answerWithContextCached(q, c, answerCache)
CallCached ==
    /\ mode = "cached"
    /\ cpc \in {"idle", "returned", "thrown"}
    /\ \E op \in CachedOps, q \in CachedQuestions :
          /\ cOp = "none" \/ ((op = "ans") <=> (cOp = "ans"))
          /\ \E c \in IF op = "ans" THEN CachedContexts ELSE {<<>>} :
                CachedCall(op, q, c)
    /\ UNCHANGED <<mode, storeVars, pickVars, embedVars, keyVars, mainVars>>

NextCached ==
    \/ CallCached
    \/ CachedFnSettles
    \/ BackoffElapsed
    \/ CachedResume

SpecCached == InitCached /\ [][NextCached]_vars

-----------------------------------------------------------------------------
(* main *)

PER_QUERY_TOPK == 8

FINAL_TOPK == 25

CONTEXT_K == 6

\* process.argv.slice(2): no argument; " " and ""; "q"
Argvs == { <<>>, << <<32>>, <<>> >>, << <<113>> >> }

\* Array.prototype.join(" ")
RECURSIVE JoinSpace(_)
JoinSpace(args) ==
    IF Len(args) = 0 THEN <<>>
    ELSE IF Len(args) = 1 THEN args[1]
    ELSE args[1] \o <<32>> \o JoinSpace(Tail(args))

\* readJsonSafe(filePath, {}): the parsed file, or {} when readFile or
\* JSON.parse throws
readJsonSafe(file) == IF file.kind = "json" THEN file.data ELSE EmptyCache

\* JSON.parse(JSON.stringify(obj)) of a cache object: a property whose value
\* is undefined is left out
JsonOf(obj) == [k \in {x \in DOMAIN obj : obj[x] # Undef} |-> obj[k]]

\* the index file built from the corpus: three chunks of one document
IndexItems == << Item(0, <<10, 0>>), Item(1, <<8, 6>>), Item(2, <<0, 10>>) >>

\* the error of fs.readFile on a missing index file, and of a failed
\* fs.mkdir / fs.writeFile
ErrNoIndex == MkErr("ENOENT", <<>>, "ENOENT", <<"no", "such", "file">>, NoInner)

ErrWrite == MkErr("ENOSPC", <<>>, "ENOSPC", <<"no", "space", "left">>, NoInner)

\* [question, ...rewrites, hyde].filter(Boolean), as texts
VariantTextsOf(qn, rw, hy) ==
    LET all == <<Str(qn)>> \o rw \o <<hy>>
        kept == SelectSeq(all, LAMBDA x : Truthy(x))
    IN  [i \in 1..Len(kept) |-> kept[i].v]

\* `[source: ${source}#${chunkIndex}]\n${content}` for a chunk of the
\* document "doc" whose content is one letter
ContextEntry(item) ==
    <<91, 115, 111, 117, 114, 99, 101, 58, 32, 100, 111, 99, 35, 48 + item.chunkIndex,
      93, 10, 65 + item.chunkIndex>>

\* buildContextBlock(selectedHits): the entries joined by "\n\n---\n\n"
RECURSIVE buildContextBlock(_)
buildContextBlock(selectedHits) ==
    IF Len(selectedHits) = 0 THEN <<>>
    ELSE IF Len(selectedHits) = 1 THEN ContextEntry(selectedHits[1].item)
    ELSE ContextEntry(selectedHits[1].item) \o <<10, 10, 45, 45, 45, 10, 10>>
         \o buildContextBlock(Tail(selectedHits))

\* main().catch: one of three messages, then process.exit(1)
MainCatch(caught, err) ==
    LET info == classifyOpenAIError(err)
    IN  /\ mCaught' = Append(caught, [at |-> "main().catch", err |-> err])
        /\ console' = Append(console,
                             IF info.isQuota THEN "quota exceeded"
                             ELSE IF info.isRateLimit THEN "rate limited"
                             ELSE "unexpected error")
        /\ exitCode' = <<1>>
        /\ mpc' = "exited"

\* the cached call main awaited has settled and main has its result: the
\* locals of the call and of its withRetry are gone
CachedCallEnds ==
    /\ NoRetryCall
    /\ cpc' = "idle"
    /\ cOp' = "none"
    /\ cQuestion' = <<>>
    /\ cContext' = <<>>
    /\ cKey' = <<>>
    /\ cOut' = Undef
    /\ UNCHANGED <<augmentCache, answerCache, cOrigin>>

\* the same for embedTextsCached, whose withRetry main leaves to the caller
EmbedCallEnds ==
    /\ epc' = "idle"
    /\ eTexts' = <<>>
    /\ eMissIndexes' = <<>>
    /\ eWrapped' = 0
    /\ eRequests' = <<>>
    /\ eOut' = <<>>
    /\ eCacheBefore' = EmptyCache
    /\ ePrev' = NoCall
    /\ UNCHANGED embedCache

\* MainStart without trim()
MainStartNoTrim ==
    /\ mode = "main"
    /\ mpc = "start"
    /\ LET q == JoinSpace(argv)
       IN  /\ question' = q
           /\ IF Len(q) = 0
              THEN /\ console' = Append(console, "usage")
                   /\ exitCode' = <<1>>
                   /\ mpc' = "exited"
              ELSE /\ mpc' = "readEmbed"
                   /\ UNCHANGED <<console, exitCode>>
    /\ UNCHANGED <<mode, retryVars, storeVars, pickVars, embedVars, keyVars, cachedVars,
                   mainEnv, rewrites, hyde, variantTexts, context, answer, ioLog, mCaught,
                   disk>>

\* const question = ...; if (!question) { usage; process.exit(1) }
MainStart ==
    /\ mode = "main"
    /\ mpc = "start"
    /\ LET q == Trim(JoinSpace(argv), CodeBlanks)
       IN  /\ question' = q
           /\ IF Len(q) = 0
              THEN /\ console' = Append(console, "usage")
                   /\ exitCode' = <<1>>
                   /\ mpc' = "exited"
              ELSE /\ mpc' = "readEmbed"
                   /\ UNCHANGED <<console, exitCode>>
    /\ UNCHANGED <<mode, retryVars, storeVars, pickVars, embedVars, keyVars, cachedVars,
                   mainEnv, rewrites, hyde, variantTexts, context, answer, ioLog, mCaught,
                   disk>>

\* ReadCache whose third read is of the embedding cache file again
ReadCacheRereads ==
    /\ mode = "main"
    /\ mpc \in {"readEmbed", "readAugment", "readAnswer"}
    /\ LET f == CASE mpc = "readEmbed" -> "embed"
                  [] mpc = "readAugment" -> "augment"
                  [] mpc = "readAnswer" -> "embed"
           obj == readJsonSafe(disk[f])
       IN  /\ ioLog' = Append(ioLog, [op |-> "read", file |-> f])
           /\ embedCache' = IF f = "embed" THEN obj ELSE embedCache
           /\ augmentCache' = IF f = "augment" THEN obj ELSE augmentCache
           /\ answerCache' = IF f = "answer" THEN obj ELSE answerCache
    /\ mpc' = CASE mpc = "readEmbed" -> "readAugment"
                [] mpc = "readAugment" -> "readAnswer"
                [] mpc = "readAnswer" -> "loadIndex"
    /\ UNCHANGED <<mode, retryVars, storeVars, pickVars, keyVars, mainEnv, mainData, disk,
                   console, exitCode, mCaught>>
    /\ UNCHANGED <<epc, eTexts, eMissIndexes, eWrapped, eRequests, eOut, eCacheBefore, ePrev,
                   cpc, cOp, cQuestion, cContext, cKey, cOut, cOrigin>>

\* one of the three "await readJsonSafe(...)"
ReadCache ==
    /\ mode = "main"
    /\ mpc \in {"readEmbed", "readAugment", "readAnswer"}
    /\ LET f == CASE mpc = "readEmbed" -> "embed"
                  [] mpc = "readAugment" -> "augment"
                  [] mpc = "readAnswer" -> "answer"
           obj == readJsonSafe(disk[f])
       IN  /\ ioLog' = Append(ioLog, [op |-> "read", file |-> f])
           /\ embedCache' = IF f = "embed" THEN obj ELSE embedCache
           /\ augmentCache' = IF f = "augment" THEN obj ELSE augmentCache
           /\ answerCache' = IF f = "answer" THEN obj ELSE answerCache
    /\ mpc' = CASE mpc = "readEmbed" -> "readAugment"
                [] mpc = "readAugment" -> "readAnswer"
                [] mpc = "readAnswer" -> "loadIndex"
    /\ UNCHANGED <<mode, retryVars, storeVars, pickVars, keyVars, mainEnv, mainData, disk,
                   console, exitCode, mCaught>>
    /\ UNCHANGED <<epc, eTexts, eMissIndexes, eWrapped, eRequests, eOut, eCacheBefore, ePrev,
                   cpc, cOp, cQuestion, cContext, cKey, cOut, cOrigin>>

\* await LocalVectorStore.load(INDEX_PATH)
LoadIndex ==
    /\ mode = "main"
    /\ mpc = "loadIndex"
    /\ ioLog' = Append(ioLog, [op |-> "read", file |-> "index"])
    /\ IF disk.index.kind = "json"
       THEN /\ store' = disk.index.data
            /\ mpc' = "rewrite"
            /\ UNCHANGED <<console, exitCode, mCaught>>
       ELSE /\ MainCatch(mCaught, ErrNoIndex)
            /\ UNCHANGED store
    /\ UNCHANGED <<mode, retryVars, sop, sQueries, sTopK, sFinalTopK, sOut, pickVars,
                   embedVars, keyVars, cachedVars, mainEnv, mainData, disk>>

\* if (ENABLE_MULTI_QUERY) rewrites = await getMultiQueriesCached(...), up
\* to the await
AugmentRewrite ==
    /\ mode = "main"
    /\ mpc = "rewrite"
    /\ IF enableMulti
       THEN /\ CachedCall("mq", question, <<>>)
            /\ mpc' = "rewriting"
       ELSE /\ mpc' = "hyde"
            /\ UNCHANGED <<retryVars, cachedVars>>
    /\ UNCHANGED <<mode, storeVars, pickVars, embedVars, keyVars, mainEnv, mainData, mainOut,
                   disk>>

\* AugmentCatch that takes every error for a quota error
AugmentCatchSwallowsAll(err) ==
    /\ mCaught' = Append(mCaught, [at |-> "augment", err |-> err])
    /\ console' = Append(console, "no quota for augmentation")
    /\ rewrites' = <<>>
    /\ hyde' = Str(<<>>)
    /\ mpc' = "variants"
    /\ UNCHANGED exitCode

\* AugmentCatch without "rewrites = []"
AugmentCatchKeepsRewrites(err) ==
    IF classifyOpenAIError(err).isQuota
    THEN /\ mCaught' = Append(mCaught, [at |-> "augment", err |-> err])
         /\ console' = Append(console, "no quota for augmentation")
         /\ hyde' = Str(<<>>)
         /\ mpc' = "variants"
         /\ UNCHANGED <<exitCode, rewrites>>
    ELSE /\ MainCatch(Append(mCaught, [at |-> "augment", err |-> err]), err)
         /\ UNCHANGED <<rewrites, hyde>>

\* the catch of the augmentation try: a quota error is logged and the run
\* goes on without rewrites and HyDE; any other error is thrown again
AugmentCatch(err) ==
    IF classifyOpenAIError(err).isQuota
    THEN /\ mCaught' = Append(mCaught, [at |-> "augment", err |-> err])
         /\ console' = Append(console, "no quota for augmentation")
         /\ rewrites' = <<>>
         /\ hyde' = Str(<<>>)
         /\ mpc' = "variants"
         /\ UNCHANGED exitCode
    ELSE /\ MainCatch(Append(mCaught, [at |-> "augment", err |-> err]), err)
         /\ UNCHANGED <<rewrites, hyde>>

\* AfterRewrite whose catch, on a quota error, lets the try block go on with
\* getHydeCached
AfterRewriteGoesOn ==
    /\ mode = "main"
    /\ mpc = "rewriting"
    /\ cpc \in {"returned", "thrown"}
    /\ IF cpc = "returned"
       THEN /\ rewrites' = cOut.v
            /\ mpc' = "hyde"
            /\ UNCHANGED <<hyde, mainOut>>
       ELSE IF classifyOpenAIError(retResult.err).isQuota
       THEN /\ mCaught' = Append(mCaught, [at |-> "augment", err |-> retResult.err])
            /\ console' = Append(console, "no quota for augmentation")
            /\ rewrites' = <<>>
            /\ mpc' = "hyde"
            /\ UNCHANGED <<hyde, exitCode, ioLog>>
       ELSE /\ AugmentCatch(retResult.err)
            /\ UNCHANGED ioLog
    /\ CachedCallEnds
    /\ UNCHANGED <<mode, storeVars, pickVars, embedVars, keyVars, mainEnv, question,
                   variantTexts, context, answer, disk>>

\* getMultiQueriesCached has settled
AfterRewrite ==
    /\ mode = "main"
    /\ mpc = "rewriting"
    /\ cpc \in {"returned", "thrown"}
    /\ IF cpc = "returned"
       THEN /\ rewrites' = cOut.v
            /\ mpc' = "hyde"
            /\ UNCHANGED <<hyde, mainOut>>
       ELSE /\ AugmentCatch(retResult.err)
            /\ UNCHANGED ioLog
    /\ CachedCallEnds
    /\ UNCHANGED <<mode, storeVars, pickVars, embedVars, keyVars, mainEnv, question,
                   variantTexts, context, answer, disk>>

\* if (ENABLE_HYDE) hyde = await getHydeCached(...), up to the await
AugmentHyde ==
    /\ mode = "main"
    /\ mpc = "hyde"
    /\ IF enableHyde
       THEN /\ CachedCall("hyde", question, <<>>)
            /\ mpc' = "hyding"
       ELSE /\ mpc' = "variants"
            /\ UNCHANGED <<retryVars, cachedVars>>
    /\ UNCHANGED <<mode, storeVars, pickVars, embedVars, keyVars, mainEnv, mainData, mainOut,
                   disk>>

\* getHydeCached has settled
AfterHyde ==
    /\ mode = "main"
    /\ mpc = "hyding"
    /\ cpc \in {"returned", "thrown"}
    /\ IF cpc = "returned"
       THEN /\ hyde' = cOut
            /\ mpc' = "variants"
            /\ UNCHANGED <<rewrites, mainOut>>
       ELSE /\ AugmentCatch(retResult.err)
            /\ UNCHANGED ioLog
    /\ CachedCallEnds
    /\ UNCHANGED <<mode, storeVars, pickVars, embedVars, keyVars, mainEnv, question,
                   variantTexts, context, answer, disk>>

\* const variantTexts = ...; variantEmbeds = await embedTextsCached(...), up
\* to the await
EmbedVariants ==
    /\ mode = "main"
    /\ mpc = "variants"
    /\ LET texts == VariantTextsOf(question, rewrites, hyde)
       IN  /\ variantTexts' = texts
           /\ EmbedStart(texts)
    /\ mpc' = "embedding"
    /\ UNCHANGED <<mode, embedCache, storeVars, pickVars, keyVars, cachedVars, mainEnv,
                   question, rewrites, hyde, context, answer, mainOut, disk>>

\* embedTextsCached has settled.  When it threw: a quota error is logged
\* and the process exits with 1, any other error is thrown again.  When it
\* returned: searchMulti, pickDiverse and buildContextBlock run, and
\* answerWithContextCached runs up to its await.
AfterEmbed ==
    /\ mode = "main"
    /\ mpc = "embedding"
    /\ epc \in {"returned", "thrown"}
    /\ IF epc = "returned"
       THEN LET mergedHits == searchMulti(store, eOut, PER_QUERY_TOPK, FINAL_TOPK)
                selected == pickDiverse(mergedHits, CONTEXT_K, DefaultLambda, DefaultMinKeep)
                ctx == buildContextBlock(selected)
            IN  /\ sop' = "searchMulti"
                /\ sQueries' = eOut
                /\ sTopK' = PER_QUERY_TOPK
                /\ sFinalTopK' = FINAL_TOPK
                /\ sOut' = mergedHits
                /\ pop' = "done"
                /\ pHits' = mergedHits
                /\ pK' = CONTEXT_K
                /\ pLambda' = DefaultLambda
                /\ pMinKeep' = DefaultMinKeep
                /\ pOut' = selected
                /\ context' = ctx
                /\ CachedCall("ans", question, ctx)
                /\ mpc' = "answering"
                /\ UNCHANGED mainOut
       ELSE /\ LET err == retResult.err
                   caught == Append(mCaught, [at |-> "embed", err |-> err])
               IN  IF classifyOpenAIError(err).isQuota
                   THEN /\ mCaught' = caught
                        /\ console' = Append(console, "no quota for embeddings")
                        /\ exitCode' = <<1>>
                        /\ mpc' = "exited"
                   ELSE MainCatch(caught, err)
            /\ NoRetryCall
            /\ UNCHANGED <<sop, sQueries, sTopK, sFinalTopK, sOut, pickVars, context,
                           cachedVars, ioLog>>
    /\ EmbedCallEnds
    /\ UNCHANGED <<mode, store, keyVars, mainEnv, question, rewrites, hyde, variantTexts,
                   answer, disk>>

\* answerWithContextCached has settled.  When it threw: as for the
\* embeddings.  When it returned: the answer is printed, and the first
\* writeJson runs up to its await.
AfterAnswer ==
    /\ mode = "main"
    /\ mpc = "answering"
    /\ cpc \in {"returned", "thrown"}
    /\ IF cpc = "returned"
       THEN /\ answer' = cOut
            /\ console' = console \o <<"answer", "done">>
            /\ mpc' = "writeEmbed"
            /\ UNCHANGED <<exitCode, ioLog, mCaught>>
       ELSE /\ LET err == retResult.err
                   caught == Append(mCaught, [at |-> "answer", err |-> err])
               IN  IF classifyOpenAIError(err).isQuota
                   THEN /\ mCaught' = caught
                        /\ console' = Append(console, "no quota for answering")
                        /\ exitCode' = <<1>>
                        /\ mpc' = "exited"
                   ELSE MainCatch(caught, err)
            /\ UNCHANGED <<answer, ioLog>>
    /\ CachedCallEnds
    /\ UNCHANGED <<mode, storeVars, pickVars, embedVars, keyVars, mainEnv, question,
                   rewrites, hyde, variantTexts, context, disk>>

\* one of the three "await writeJson(...)": the file is written, or
\* fs.mkdir / fs.writeFile throws and main rejects; after the third the
\* process ends with status 0
WriteCache ==
    /\ mode = "main"
    /\ mpc \in {"writeEmbed", "writeAugment", "writeAnswer"}
    /\ LET f == CASE mpc = "writeEmbed" -> "embed"
                  [] mpc = "writeAugment" -> "augment"
                  [] mpc = "writeAnswer" -> "answer"
           obj == CASE mpc = "writeEmbed" -> embedCache
                    [] mpc = "writeAugment" -> JsonOf(augmentCache)
                    [] mpc = "writeAnswer" -> JsonOf(answerCache)
       IN  \E written \in BOOLEAN :
             IF written
             THEN /\ disk' = [disk EXCEPT ![f] = JsonFile(obj)]
                  /\ ioLog' = Append(ioLog, [op |-> "write", file |-> f])
                  /\ mpc' = CASE mpc = "writeEmbed" -> "writeAugment"
                              [] mpc = "writeAugment" -> "writeAnswer"
                              [] mpc = "writeAnswer" -> "done"
                  /\ exitCode' = IF mpc = "writeAnswer" THEN <<0>> ELSE exitCode
                  /\ UNCHANGED <<console, mCaught>>
             ELSE /\ MainCatch(mCaught, ErrWrite)
                  /\ UNCHANGED <<disk, ioLog>>
    /\ UNCHANGED <<mode, retryVars, storeVars, pickVars, embedVars, keyVars, cachedVars,
                   mainEnv, mainData>>

\* The cache files an earlier run has left: the run was asked "q" with both
\* strategies on, got the rewrite "a" and the hypothetical text "b", the
\* vector <<10, 0>> for every text and the answer "A", and wrote its files.
PriorVector == <<10, 0>>

PriorEmbedCache ==
    StoreVectors(EmptyCache, << <<113>>, <<97>>, <<98>> >>, <<1, 2, 3>>,
                 <<PriorVector, PriorVector, PriorVector>>, 1)

PriorAugmentCache ==
    CachePut(CachePut(EmptyCache, MultiQueryKey(GEN_MODEL, <<113>>), List(<< Str(<<97>>) >>)),
             HydeKey(GEN_MODEL, <<113>>), Str(<<98>>))

PriorContext ==
    buildContextBlock(
        pickDiverse(searchMulti(IndexItems, <<PriorVector, PriorVector, PriorVector>>,
                                PER_QUERY_TOPK, FINAL_TOPK),
                    CONTEXT_K, DefaultLambda, DefaultMinKeep))

PriorAnswerCache == CachePut(EmptyCache, AnswerKeyOf(<<113>>, PriorContext), Str(<<65>>))

\* Specification SpecMain: one run of the program, with no cache file, with
\* cache files that are not JSON, or with the files of an earlier run
InitMain ==
    /\ mode = "main"
    /\ InitRetryIdle
    /\ InitStoreIdle
    /\ InitPickIdle
    /\ InitEmbedIdle
    /\ InitKeysIdle
    /\ InitCachedIdle
    /\ argv \in Argvs
    /\ enableMulti \in BOOLEAN
    /\ enableHyde \in BOOLEAN
    /\ \E indexFile \in {NoFile, JsonFile(IndexItems)} :
          \/ \E cacheFile \in {NoFile, Corrupt} :
                disk = [embed |-> cacheFile, augment |-> cacheFile, answer |-> cacheFile,
                        index |-> indexFile]
          \/ disk = [embed |-> JsonFile(PriorEmbedCache),
                     augment |-> JsonFile(PriorAugmentCache),
                     answer |-> JsonFile(PriorAnswerCache), index |-> indexFile]
    /\ mpc = "start"
    /\ InitMainData

NextMain ==
    \/ MainStart
    \/ ReadCache
    \/ LoadIndex
    \/ AugmentRewrite
    \/ AfterRewrite
    \/ AugmentHyde
    \/ AfterHyde
    \/ EmbedVariants
    \/ AfterEmbed
    \/ AfterAnswer
    \/ WriteCache
    \/ CachedFnSettles
    \/ CachedResume
    \/ EmbedFnSettles
    \/ EmbedResume
    \/ BackoffElapsed

SpecMain == InitMain /\ [][NextMain]_vars

-----------------------------------------------------------------------------
(* Specification SpecKeys: the cache keys built for any models and texts *)

\* values of RAG_GEN_MODEL and RAG_EMBED_MODEL: the defaults, "m", "mq:m",
\* "m:0" and "s:ans:m"
ModelIds ==
    { GEN_MODEL, EMBED_MODEL, <<"m">>, <<"m", "q", ":", "m">>, <<"m", ":", "0">>,
      <<"s", ":", "a", "n", "s", ":", "m">> }

\* the texts keys are built for: "", "a", "b", "ans:"
KeyTexts == { <<>>, <<97>>, <<98>>, <<97, 110, 115, 58>> }

MaxKeysBuilt == 2

InitKeys ==
    /\ mode = "keys"
    /\ InitRetryIdle
    /\ InitStoreIdle
    /\ InitPickIdle
    /\ InitEmbedIdle
    /\ genModel \in ModelIds
    /\ embedModel \in ModelIds
    /\ kBuilt = {}
    /\ InitCachedIdle
    /\ InitMainIdle

\* a key is built and used on the cache of its namespace
Built(ns, key) ==
    /\ mode = "keys"
    /\ Cardinality(kBuilt) < MaxKeysBuilt
    /\ kBuilt' = kBuilt \cup {[ns |-> ns, key |-> key]}
    /\ UNCHANGED <<mode, genModel, embedModel, retryVars, storeVars, pickVars, embedVars,
                   cachedVars, mainVars>>

\* embedTextsCached builds the key of a text
BuildEmbedKey == \E t \in KeyTexts : Built("emb", EmbedKeyFor(embedModel, t))

\* getMultiQueriesCached builds the key of a question
BuildMultiQueryKey == \E q \in KeyTexts : Built("mq", MultiQueryKey(genModel, q))

\* getHydeCached builds the key of a question
BuildHydeKey == \E q \in KeyTexts : Built("hyde", HydeKey(genModel, q))

\* answerWithContextCached builds the key of a question and a context
BuildAnswerKey == \E q \in KeyTexts, c \in KeyTexts : Built("ans", AnswerKey(genModel, q, c))

NextKeys ==
    \/ BuildEmbedKey
    \/ BuildMultiQueryKey
    \/ BuildHydeKey
    \/ BuildAnswerKey

SpecKeys == InitKeys /\ [][NextKeys]_vars

-----------------------------------------------------------------------------
(* Claims about withRetry, checked under SpecRetry *)

Retryable(o) == ~o.ok /\ ClassOf(o.err) \in {"RateLimit", "Transient"}

NonRetryable(o) == ~o.ok /\ ClassOf(o.err) \in {"Quota", "Other"}

\* C1: an attempt that fails with a Quota error (whatever else the error also
\* matches) or with an Other error is the last invocation of fn: no backoff
\* follows it, and withRetry throws that very error.
C1_NonRetryableIsFinal ==
    \A i \in 1..Len(fnLog) :
        NonRetryable(fnLog[i]) =>
            /\ i = Len(fnLog)
            /\ rpc = "thrown"
            /\ retResult = fnLog[i]
            /\ Len(waitLog) = i - 1
            /\ Len(warnLog) = i - 1

\* C1 witness: a quota error that is also a rate-limit error, on a later attempt
C1_Witness ==
    /\ Len(fnLog) >= 2
    /\ Last(fnLog) = Fail(ErrQuotaAndRate)
    /\ classifyOpenAIError(ErrQuotaAndRate).isRateLimit
    /\ rpc = "thrown"

\* C2: with maxRetries = 4 (the default) fn is invoked at most 5 times and
\* retried at most 4 times; when the 5th attempt fails too, withRetry throws
\* the error of that 5th attempt as it is.
C2_RetryBudget ==
    (rpc # "idle" /\ maxRetries = DefaultMaxRetries) =>
        /\ Len(fnLog) <= DefaultMaxRetries + 1
        /\ Len(warnLog) <= DefaultMaxRetries
        /\ Len(waitLog) <= DefaultMaxRetries
        /\ (Len(fnLog) = DefaultMaxRetries + 1 /\ ~Last(fnLog).ok) =>
              (rpc = "thrown" /\ retResult = Last(fnLog))

\* C2 witness: five failures, rate-limit and transient ones mixed
C2_Witness ==
    /\ maxRetries = DefaultMaxRetries
    /\ Len(fnLog) = 5
    /\ \A i \in 1..5 : Retryable(fnLog[i])
    /\ \E i, j \in 1..5 : ClassOf(fnLog[i].err) = "RateLimit"
                          /\ ClassOf(fnLog[j].err) = "Transient"
    /\ fnLog[5].err # fnLog[4].err
    /\ rpc = "thrown"

\* C3: n retryable failures followed by a success make withRetry return the
\* value of attempt n+1 after exactly n+1 invocations and n warnings, and a
\* retryable failure within the budget never ends the call.
C3_SuccessAfterRetries ==
    /\ rpc = "returned" =>
          /\ Len(fnLog) >= 1
          /\ Last(fnLog).ok
          /\ retResult = Last(fnLog)
          /\ \A i \in 1..(Len(fnLog) - 1) : Retryable(fnLog[i])
          /\ Len(warnLog) = Len(fnLog) - 1
          /\ \A i \in 1..Len(warnLog) : warnLog[i].attempt = i
    /\ \A i \in 1..Len(fnLog) :
          (Retryable(fnLog[i]) /\ i <= maxRetries) =>
              /\ Len(warnLog) >= i
              /\ (rpc \in {"returned", "thrown"} => Len(fnLog) > i)
    /\ (Len(fnLog) >= 1 /\ Last(fnLog).ok) => rpc = "returned"

\* C3 witness: a rate-limit failure, then a success on the second attempt
C3_Witness ==
    /\ rpc = "returned"
    /\ fnLog = <<Fail(ErrRateCode), Ok("v1")>>
    /\ retResult = Ok("v1")
    /\ Len(warnLog) = 1

-----------------------------------------------------------------------------
(* Claims about LocalVectorStore, checked under SpecStore *)

\* the position in the store of the item of the k-th returned hit
PosOf(k) == CHOOSE i \in 1..Len(store) : store[i].id = sOut[k].item.id

Dot2(a, b) == a[1] * b[1] + a[2] * b[2]

SetMax(S) == CHOOSE x \in S : \A y \in S : y <= x

\* hit k goes before a hit of score s on the item at position i
Before(k, s, i) ==
    \/ sOut[k].score > s
    \/ (sOut[k].score = s /\ PosOf(k) < i)

\* C4: search returns min(topK, #items) hits, each an item of the store with
\* the dot product of the query and its embedding as score, by non-increasing
\* score and, among equal scores, in the store's order; every item left out
\* would sort after every hit returned.
C4_SearchTopK ==
    sop = "search" =>
        LET q == sQueries[1]
            n == Len(sOut)
            ScoreAt(i) == Dot2(q, store[i].embeddingUnit)
        IN  /\ n = Min(sTopK, Len(store))
            /\ \A k \in 1..n :
                  \E i \in 1..Len(store) :
                      sOut[k] = [item |-> store[i], score |-> ScoreAt(i)]
            /\ \A k, l \in 1..n : k < l => Before(k, sOut[l].score, PosOf(l))
            /\ \A i \in 1..Len(store) :
                  (\A k \in 1..n : PosOf(k) # i) =>
                      \A k \in 1..n : Before(k, ScoreAt(i), i)

\* C4 witness: two hits of equal score returned, and a third item of that
\* same score cut off by topK
C4_Witness ==
    /\ sop = "search"
    /\ Len(sOut) = 2
    /\ sOut[1].score = sOut[2].score
    /\ Len(store) = 3
    /\ \A i \in 1..3 : Dot2(sQueries[1], store[i].embeddingUnit) = sOut[1].score

\* the hits search returns for each query vector of the last searchMulti
PerQueryHits == [j \in 1..Len(sQueries) |-> search(store, sQueries[j], sTopK)]

\* the scores the variant searches H returned for an item id
ObservedScores(H, id) ==
    UNION { { H[j][k].score : k \in {k \in 1..Len(H[j]) : H[j][k].item.id = id} } :
            j \in DOMAIN H }

\* C5: every hit of the merged result carries the largest score any variant
\* search returned for its id; no id occurs twice; the scores do not increase.
C5_MergedMaxScore ==
    sop = "searchMulti" =>
        LET H == PerQueryHits
        IN  /\ \A k \in 1..Len(sOut) :
                  /\ ObservedScores(H, sOut[k].item.id) # {}
                  /\ sOut[k].score = SetMax(ObservedScores(H, sOut[k].item.id))
            /\ \A k, l \in 1..Len(sOut) : k < l =>
                  /\ sOut[k].item.id # sOut[l].item.id
                  /\ sOut[k].score >= sOut[l].score

\* C5 witness: an id whose score was raised by the second variant and an id
\* whose score the second variant did not lower
C5_Witness ==
    /\ sop = "searchMulti"
    /\ Len(sQueries) = 2
    /\ LET H == PerQueryHits
       IN  \E k, l \in 1..Len(sOut) :
             /\ \E a \in 1..Len(H[1]), b \in 1..Len(H[2]) :
                   /\ H[1][a].item.id = sOut[k].item.id
                   /\ H[2][b].item.id = sOut[k].item.id
                   /\ H[1][a].score < H[2][b].score
                   /\ sOut[k].score = H[2][b].score
             /\ \E a \in 1..Len(H[1]), b \in 1..Len(H[2]) :
                   /\ H[1][a].item.id = sOut[l].item.id
                   /\ H[2][b].item.id = sOut[l].item.id
                   /\ H[1][a].score > H[2][b].score

\* for each store position: the scores some variant search returned for it
ObservedAt(H) == [i \in 1..Len(store) |-> ObservedScores(H, store[i].id)]

\* when a store position was first returned (variant by variant, hit by hit),
\* as a number that grows with time; 0 when it never was
FirstSeenAt(H) ==
    [i \in 1..Len(store) |->
        LET P == {<<j, k>> \in (DOMAIN H) \X (1..Len(store)) :
                     k <= Len(H[j]) /\ H[j][k].item.id = store[i].id}
        IN  IF P = {} THEN 0
            ELSE 0 - SetMax({0 - (p[1] * (Len(store) + 1) + p[2]) : p \in P})]

InResult(i) == \E k \in 1..Len(sOut) : sOut[k].item.id = store[i].id

\* C6: a chunk is in the result of searchMulti iff some variant search
\* returned it and its best score ranks within the first finalTopK of the
\* candidates (equal best scores rank in the order the candidates were first
\* returned); the result has at most finalTopK and at most
\* #queries * perQueryTopK hits.
C6_Membership ==
    sop = "searchMulti" =>
        LET H == PerQueryHits
            obs == ObservedAt(H)
            seen == FirstSeenAt(H)
            Candidates == {i \in 1..Len(store) : obs[i] # {}}
            best == [i \in Candidates |-> SetMax(obs[i])]
            RankOf(i) ==
                1 + Cardinality({c \in Candidates :
                                    \/ best[c] > best[i]
                                    \/ (best[c] = best[i] /\ seen[c] < seen[i])})
        IN  /\ \A i \in 1..Len(store) :
                  InResult(i) <=> (i \in Candidates /\ RankOf(i) <= sFinalTopK)
            /\ \A i \in Candidates :
                  /\ InResult(i) =>
                        Cardinality({c \in Candidates : best[c] > best[i]}) < sFinalTopK
                  /\ Cardinality({c \in Candidates \ {i} : best[c] >= best[i]}) < sFinalTopK
                        => InResult(i)
            /\ Len(sOut) = Min(sFinalTopK, Cardinality(Candidates))
            /\ Len(sOut) <= sFinalTopK
            /\ Len(sOut) <= Len(sQueries) * sTopK

\* C6 witness: one chunk no variant returned, one candidate cut by finalTopK
\* whose best score equals that of a returned hit, and a returned hit
C6_Witness ==
    /\ sop = "searchMulti"
    /\ Len(sOut) >= 1
    /\ LET obs == ObservedAt(PerQueryHits)
       IN  /\ \E i \in 1..Len(store) : obs[i] = {}
           /\ \E i \in 1..Len(store) :
                 /\ obs[i] # {}
                 /\ ~InResult(i)
                 /\ \E k \in 1..Len(sOut) : sOut[k].score = SetMax(obs[i])

-----------------------------------------------------------------------------
(* Claims about pickDiverse, checked under SpecPick *)

DistinctIds(hits) ==
    \A i, j \in 1..Len(hits) : i # j => hits[i].item.id # hits[j].item.id

\* C7: the output of pickDiverse has at most k hits (none when k = 0), and
\* with k >= 1 and a non-empty hit list its first hit is the first input hit,
\* whatever the score, lambda and minKeep.
C7_BoundedAndBootstrap ==
    pop = "done" =>
        /\ Len(pOut) <= pK
        /\ (pK = 0 => pOut = <<>>)
        /\ (pK >= 1 /\ pHits # <<>>) => (pOut # <<>> /\ pOut[1] = pHits[1])

\* C7 witness: a first hit whose MMR score does not exceed minKeep is
\* selected all the same, and the k-th pick ends the loop before the last hit
C7_Witness ==
    /\ pop = "done"
    /\ pK = 2
    /\ Len(pHits) = 3
    /\ Len(pOut) = 2
    /\ pOut[2] = pHits[2]
    /\ pLambda * pHits[1].score <= pMinKeep * Scale * Scale
    /\ pOut[1] = pHits[1]

-----------------------------------------------------------------------------
(* Claims about embedTextsCached, checked under SpecEmbed *)

\* the texts of the invocation that had no entry in the cache it was given
MissedTexts(texts, cache) ==
    SelectSeq(texts, LAMBDA t : KeyOf[t] \notin DOMAIN cache)

\* C9: when embedTextsCached is invoked twice in a row with the same texts
\* and the first invocation returned, the second makes no embedding call,
\* returns at once the vectors the first returned, and the two together made
\* one retry-wrapped call if a text was not cached before (one request to the
\* service, plus one per retry), none otherwise.
C9_CacheIdempotence ==
    (epc # "idle" /\ ePrev.status = "returned" /\ ePrev.texts = eTexts) =>
        /\ epc = "returned"
        /\ eWrapped = 0
        /\ eRequests = <<>>
        /\ eOut = ePrev.out
        /\ IF MissedTexts(eTexts, ePrev.cacheBefore) # <<>>
           THEN /\ ePrev.wrapped + eWrapped = 1
                /\ ePrev.requests = 1 + ePrev.retries
           ELSE /\ ePrev.wrapped + eWrapped = 0
                /\ ePrev.requests = 0

\* C9 witness: one text, not cached, embedded with one request; then again
C9_Witness ==
    /\ epc = "returned"
    /\ ePrev.status = "returned"
    /\ eTexts = << <<97>> >>
    /\ ePrev.texts = eTexts
    /\ ePrev.cacheBefore = EmptyCache
    /\ ePrev.requests = 1
    /\ eOut = ePrev.out
    /\ Len(eOut) = 1

\* C10: an invocation makes one retry-wrapped embedding call, whose input is
\* the texts that had no cache entry, in their order in the batch, and none
\* when every text had one; when it returns, every vector received is stored
\* under the key of a text it was computed for, entries that were there are
\* as they were, and the i-th element returned is the cached vector of the
\* i-th text if it had one, else a vector received for that text.
C10_BatchPartition ==
    epc # "idle" =>
        LET missed == MissedTexts(eTexts, eCacheBefore)
            IsHit(i) == KeyOf[eTexts[i]] \in DOMAIN eCacheBefore
        IN  /\ eWrapped = IF missed = <<>> THEN 0 ELSE 1
            /\ \A r \in 1..Len(eRequests) : eRequests[r] = missed
            /\ Len(eRequests) = Len(fnLog)
            /\ (missed = <<>>) => (eRequests = <<>> /\ epc = "returned")
            /\ (epc = "returned" /\ missed # <<>>) => Len(eRequests) = 1 + Len(warnLog)
            /\ epc = "returned" =>
                  /\ Len(eOut) = Len(eTexts)
                  /\ \A i \in 1..Len(eTexts) :
                        /\ eOut[i] = embedCache[KeyOf[eTexts[i]]]
                        /\ IF IsHit(i)
                           THEN eOut[i] = eCacheBefore[KeyOf[eTexts[i]]]
                           ELSE \E j \in 1..Len(missed) :
                                   /\ missed[j] = eTexts[i]
                                   /\ eOut[i] = retResult.value[j]
                  /\ DOMAIN embedCache =
                        (DOMAIN eCacheBefore) \cup {KeyOf[missed[j]] : j \in 1..Len(missed)}
                  /\ \A k \in DOMAIN eCacheBefore : embedCache[k] = eCacheBefore[k]

-----------------------------------------------------------------------------
(* Claims about the cache keys, checked under SpecKeys *)

\* C13: two keys built for different namespaces (embedding, rewrite, HyDE,
\* answer) are different character strings, whatever the models and the texts.
C13_NamespacesDisjoint ==
    \A a, b \in kBuilt : a.ns # b.ns => a.key # b.key

\* C13 witness: the rewrite key and the HyDE key of one question under one
\* model, which differ in their prefix alone
C13_Witness ==
    \E q \in KeyTexts :
        /\ [ns |-> "mq", key |-> MultiQueryKey(genModel, q)] \in kBuilt
        /\ [ns |-> "hyde", key |-> HydeKey(genModel, q)] \in kBuilt
        /\ SubSeq(MultiQueryKey(genModel, q), 4, Len(MultiQueryKey(genModel, q)))
              = SubSeq(HydeKey(genModel, q), 6, Len(HydeKey(genModel, q)))

-----------------------------------------------------------------------------
(* Claims about the cached generation calls, checked under SpecCached *)

\* the invocation that has returned was served from the cache
ServedFromCache == cpc = "returned" /\ rpc = "idle"

\* C14 as stated: an answer returned from the cache was stored for the very
\* question and context of this invocation, so that a call with another
\* context is a miss that invokes the service
C14_NoStaleAnswer ==
    (cOp = "ans" /\ ServedFromCache) =>
        cOrigin[CachedKey("ans", cQuestion, cContext)]
            = [question |-> cQuestion, context |-> cContext]

-----------------------------------------------------------------------------
(* Claims about main, checked under SpecMain *)

\* the run has printed the answer
AnswerPrinted == \E i \in 1..Len(console) : console[i] = "answer"

\* a catch of main at the given stage has received an error
CaughtAt(stage) == \E i \in 1..Len(mCaught) : mCaught[i].at = stage

\* an augmentation call of the run has ended with an error of class Quota
Degraded ==
    \E i \in 1..Len(mCaught) :
        mCaught[i].at = "augment" /\ classifyOpenAIError(mCaught[i].err).isQuota

\* the process has ended
RunEnded == mpc \in {"done", "exited"}

\* the error that ended the run came from writing a cache file
WriteFailed ==
    /\ exitCode = <<1>>
    /\ Len(mCaught) > 0
    /\ Last(mCaught) = [at |-> "main().catch", err |-> ErrWrite]

\* C11 as stated: after an augmentation call has ended with a Quota failure
\* the run does not fail, the variant texts are the question alone, and a run
\* whose embedding and answer stages succeed prints an answer and ends with
\* exit status 0.
C11_DegradedRunExitsZero ==
    Degraded =>
        /\ (variantTexts # <<>> => variantTexts = <<question>>)
        /\ (exitCode = <<1>> => CaughtAt("embed") \/ CaughtAt("answer"))
        /\ (RunEnded /\ ~CaughtAt("embed") /\ ~CaughtAt("answer")
                => AnswerPrinted /\ exitCode = <<0>>)

\* C11, amended: after an augmentation call has ended with a Quota failure
\* the variant texts are the question alone; the run ends with exit status 1
\* only when the embedding stage or the answer stage fails or when a cache
\* file cannot be written; a run whose embedding and answer stages succeed
\* prints an answer, and ends with exit status 0 unless writing a cache file
\* failed after the answer was printed.
C11_DegradedRunAnswers ==
    Degraded =>
        /\ (variantTexts # <<>> => variantTexts = <<question>>)
        /\ (exitCode = <<1>> =>
                \/ CaughtAt("embed")
                \/ CaughtAt("answer")
                \/ (AnswerPrinted /\ WriteFailed))
        /\ (RunEnded /\ ~CaughtAt("embed") /\ ~CaughtAt("answer")
                => AnswerPrinted /\ (exitCode = <<0>> \/ WriteFailed))

\* HyDE failed with Quota after the rewrite call had given a rewrite, and the
\* run has ended with an answer and exit status 0
C11_Witness ==
    /\ Degraded
    /\ enableMulti /\ enableHyde
    /\ MultiQueryKey(GEN_MODEL, question) \in DOMAIN augmentCache
    /\ augmentCache[MultiQueryKey(GEN_MODEL, question)] = List(<< Str(<<97>>) >>)
    /\ variantTexts = <<question>>
    /\ AnswerPrinted
    /\ mpc = "done"
    /\ exitCode = <<0>>

\* the i-th error a catch of main received left withRetry at a stage of the
\* pipeline and is not a Quota failure of the augmentation stage
EscapedFatal(i) ==
    /\ mCaught[i].at \in {"augment", "embed", "answer"}
    /\ ~(mCaught[i].at = "augment" /\ ClassOf(mCaught[i].err) = "Quota")

\* C12: a failure that leaves withRetry, other than a Quota failure of an
\* augmentation call, ends the run with exit status 1 and no answer printed:
\* Quota at the embedding or answer stage, RateLimit or Transient once the
\* retries are used up and Other, at any stage; and a run that ends with exit
\* status 0 has printed an answer.
C12_EscapedFailureIsFatal ==
    /\ \A i \in 1..Len(mCaught) :
           EscapedFatal(i) => mpc = "exited" /\ exitCode = <<1>> /\ ~AnswerPrinted
    /\ (exitCode = <<0>> => AnswerPrinted)

\* the rewrite call used up its retries on a Transient failure and the run
\* has ended with exit status 1
C12_Witness ==
    /\ Len(mCaught) = 2
    /\ mCaught[1].at = "augment"
    /\ ClassOf(mCaught[1].err) = "Transient"
    /\ hyde = Str(<<>>)
    /\ mpc = "exited"
    /\ exitCode = <<1>>
    /\ console = <<"unexpected error">>

CacheFiles == {"embed", "augment", "answer"}

\* how often the run has read, or written, the file
Accesses(op, file) ==
    Cardinality({i \in 1..Len(ioLog) : ioLog[i] = [op |-> op, file |-> file]})

\* what the file of a cache holds before the run
FilesBefore(file) ==
    {NoFile, Corrupt,
     JsonFile(CASE file = "embed" -> PriorEmbedCache
                [] file = "augment" -> PriorAugmentCache
                [] file = "answer" -> PriorAnswerCache)}

\* the cache object main holds for the file
CacheObject(file) ==
    CASE file = "embed" -> embedCache
      [] file = "augment" -> augmentCache
      [] file = "answer" -> answerCache

\* main is past its three readJsonSafe
CachesRead == mpc \notin {"none", "start", "readEmbed", "readAugment", "readAnswer"}

\* what C15 and its amended form share: a run that has a question reads
\* each cache file once, before anything else is read (a run without a
\* question ends before it reads); a file that is absent or not JSON gives
\* an empty cache; a file is as it was until the run writes it, at most once
\* and after the answer was printed
CacheReadEarlyWrittenLate ==
    /\ \A f \in CacheFiles :
           /\ Accesses("read", f) <= 1
           /\ (CachesRead /\ Len(question) > 0 => Accesses("read", f) = 1)
           /\ Accesses("write", f) <= 1
           /\ (Accesses("write", f) = 0 => disk[f] \in FilesBefore(f))
           /\ (mpc = "loadIndex" /\ disk[f].kind # "json" => CacheObject(f) = EmptyCache)
           /\ (Accesses("write", f) = 1 => AnswerPrinted /\ disk[f].kind = "json")
    /\ \A i \in 1..Len(ioLog) :
           (ioLog[i].op = "read" /\ ioLog[i].file \in CacheFiles) => i <= 3

\* C15 as stated: every run reads each of the three caches once at its
\* start, changes them in memory only and writes each file at most once,
\* after the answer was printed; a run that ends with exit status 1 has
\* written no cache file.
C15_CacheLifecycle ==
    /\ CacheReadEarlyWrittenLate
    /\ \A f \in CacheFiles : exitCode = <<1>> => Accesses("write", f) = 0

\* C15, amended: a run reads each of the three caches once at its start,
\* changes them in memory only and writes each file at most once, after the
\* answer was printed; a run that ends with exit status 1 has written no
\* cache file,
\* unless what ended it is a failed write of a cache file: then the files
\* before that one, in the order embed, augment, answer, are written.
C15_CacheLifecycleUnlessWriteFails ==
    /\ CacheReadEarlyWrittenLate
    /\ \A f \in CacheFiles : exitCode = <<1>> /\ ~WriteFailed => Accesses("write", f) = 0
    /\ (WriteFailed =>
           /\ Accesses("write", "answer") = 0
           /\ (Accesses("write", "augment") = 1 => Accesses("write", "embed") = 1))

\* the answer call failed for good after the run had put vectors and rewrites
\* into its caches: the run has ended with exit status 1 and the files are
\* as they were
C15_Witness ==
    /\ mpc = "exited"
    /\ exitCode = <<1>>
    /\ CaughtAt("answer")
    /\ embedCache # EmptyCache
    /\ augmentCache # EmptyCache
    /\ \A f \in CacheFiles : disk[f] = NoFile /\ Accesses("read", f) = 1

\* no argument, or arguments of white space only
NoQuestion == \A i \in 1..Len(argv) : \A j \in 1..Len(argv[i]) : argv[i][j] \in CodeBlanks

\* C16: a run without a non-blank question does one thing: it reports the
\* usage and exits with status 1, having read no file, called no service,
\* retried nothing and written no file.
C16_UsageError ==
    NoQuestion =>
        /\ mpc \in {"start", "exited"}
        /\ ioLog = <<>>
        /\ \A f \in CacheFiles : disk[f] \in FilesBefore(f)
        /\ rpc = "idle" /\ epc = "idle" /\ cpc = "idle"
        /\ fnLog = <<>> /\ eRequests = <<>> /\ warnLog = <<>> /\ waitLog = <<>>
        /\ (mpc = "exited" => console = <<"usage">> /\ exitCode = <<1>> /\ mCaught = <<>>)
        /\ (mpc = "start" => console = <<>> /\ exitCode = <<>>)

\* the run was given " " and "" and has ended
C16_Witness ==
    /\ argv = << <<32>>, <<>> >>
    /\ mpc = "exited"
    /\ console = <<"usage">>
    /\ exitCode = <<1>>

\* the run has reached the embedding stage: main has built variantTexts
EmbeddingReached == variantTexts # <<>>

\* the texts of s that are not empty, in order
NonEmptyTexts(s) == SelectSeq(s, LAMBDA t : Len(t) > 0)

\* C20: in a run that has reached the embedding stage the variant texts are
\* the question, then the rewrites (at most 3), then the hypothetical
\* answer, without the empty ones: 1 to 5 texts, none empty; and the
\* question alone when both strategies are off.
C20_VariantSet ==
    EmbeddingReached =>
        /\ variantTexts[1] = question
        /\ Len(rewrites) <= 3
        /\ variantTexts =
               <<question>> \o NonEmptyTexts([i \in 1..Len(rewrites) |-> rewrites[i].v])
                            \o NonEmptyTexts(<<hyde.v>>)
        /\ Len(variantTexts) \in 1..5
        /\ \A i \in 1..Len(variantTexts) : Len(variantTexts[i]) > 0
        /\ (~enableMulti /\ ~enableHyde => variantTexts = <<question>>)

\* the rewrites are "a", "" and "b" and the hypothetical answer is "b": the
\* variant texts are the question, "a", "b" and "b"
C20_Witness ==
    /\ rewrites = << Str(<<97>>), Str(<<>>), Str(<<98>>) >>
    /\ hyde = Str(<<98>>)
    /\ variantTexts = << question, <<97>>, <<98>>, <<98>> >>
    /\ mpc = "embedding"

-----------------------------------------------------------------------------
(* Claims about getMultiQueriesCached, checked under SpecCached *)

\* the rewrites each text of MultiQueryOutputs stands for: the two texts
\* that are JSON with a list under "queries" give its first three entries,
\* every other text gives none
RewritesIn(outputText) ==
    IF outputText = Str(QueriesDoc(<<"\"a\"">>) \o <<" ">>)
    THEN List(<< Str(<<97>>) >>)
    ELSE IF outputText = Str(QueriesDoc(<<"\"a\"", ",", "\"\"", ",", "\"b\"", ",", "\"a\"">>))
    THEN List(<< Str(<<97>>), Str(<<>>), Str(<<98>>) >>)
    ELSE List(<<>>)

\* getMultiQueriesCached has returned what it made of a response
RewritesReturned == cOp = "mq" /\ cpc = "returned" /\ rpc = "returned"

\* C19: when the service has returned, getMultiQueriesCached returns the
\* first three entries at most of the list under "queries", or the empty list
\* when the text is not JSON or has no list under "queries"; it throws only
\* what withRetry throws; and what it returns is in the augmentation cache
\* under the rewrite key of the question.
C19_RewriteParseRecovery ==
    /\ (RewritesReturned =>
           /\ cOut = RewritesIn(retResult.value)
           /\ MultiQueryKey(GEN_MODEL, cQuestion) \in DOMAIN augmentCache
           /\ augmentCache[MultiQueryKey(GEN_MODEL, cQuestion)] = cOut)
    /\ (cOp = "mq" /\ cpc = "thrown" => rpc = "thrown")

\* the service answered "Sure !": the empty list is returned and cached
C19_Witness ==
    /\ RewritesReturned
    /\ retResult.value = Str(<<"Sure", "!">>)
    /\ cOut = List(<<>>)
    /\ augmentCache[MultiQueryKey(GEN_MODEL, cQuestion)] = List(<<>>)

-----------------------------------------------------------------------------
(* Claims about repeated cached calls, checked under SpecCached *)

\* a step in which the function that has just returned is invoked again with
\* the same question (and context) on the same cache object
InvokedAgain ==
    /\ mode = "cached"
    /\ cpc = "returned"
    /\ cOp' = cOp
    /\ cQuestion' = cQuestion
    /\ cContext' = cContext

\* the second invocation ends at once, without a call of withRetry, and
\* returns what the first returned
SecondIsHit ==
    /\ cpc' = "returned"
    /\ rpc' = "idle"
    /\ fnLog' = <<>>
    /\ cOut' = cOut

\* C22: when getMultiQueriesCached, getHydeCached or answerWithContextCached
\* has returned and is invoked again with the same inputs on the same cache
\* object, the second invocation makes no call to the generation service and
\* returns the value the first returned, whatever that value is (an empty
\* list of rewrites, an empty hypothetical text and an empty answer too).
C22_SecondCallIsCached == [][InvokedAgain => SecondIsHit]_vars

\* C22 for the values JavaScript takes as true: a list of rewrites, empty or
\* not, and a text that is not empty
TruthyIsCached == [][(InvokedAgain /\ Truthy(cOut)) => SecondIsHit]_vars

-----------------------------------------------------------------------------
(* Claims about the order of the stages of main, checked under SpecMain *)

\* the places of main in the order of its text; a run that ends early is at
\* "exited"
MainPlaces ==
    << "start", "readEmbed", "readAugment", "readAnswer", "loadIndex", "rewrite",
       "rewriting", "hyde", "hyding", "variants", "embedding", "answering", "writeEmbed",
       "writeAugment", "writeAnswer", "done", "exited" >>

PlaceOf(p) == CHOOSE i \in 1..Len(MainPlaces) : MainPlaces[i] = p

\* the place at which main awaits the call that withRetry labels so
AwaitedAt(lbl) ==
    CASE lbl = "multi-query" -> "rewriting"
      [] lbl = "hyde" -> "hyding"
      [] lbl = "embeddings" -> "embedding"
      [] lbl = "answer" -> "answering"
      [] OTHER -> "none"

\* a step in which a request goes to a service: one more invocation of fn
RequestMade == Len(fnLog') = Len(fnLog) + 1

\* requests are made for the call main awaits and for no other, and one
\* operation at most is awaiting
OneCallAtItsStage ==
    /\ ~(epc = "waiting" /\ cpc = "waiting")
    /\ rpc # "idle" =>
          /\ mpc = AwaitedAt(label)
          /\ (label = "embeddings") <=> (epc # "idle")
          /\ (label # "embeddings") <=> (cpc # "idle")
    /\ cpc # "idle" =>
          mpc = CASE cOp = "mq" -> "rewriting"
                  [] cOp = "hyde" -> "hyding"
                  [] cOp = "ans" -> "answering"
    /\ epc # "idle" => mpc = "embedding"

\* getHydeCached is not called once an error has left getMultiQueriesCached
NoHydeAfterFailedRewrite == mpc \in {"hyde", "hyding"} => mCaught = <<>>

\* every attempt of the embedding call is one request, for all the variant
\* texts that had no cache entry, in their order
OneRequestForAllMisses ==
    epc # "idle" =>
        /\ eTexts = variantTexts
        /\ Len(eRequests) = Len(fnLog)
        /\ \A r \in 1..Len(eRequests) : eRequests[r] = MissedTexts(variantTexts, eCacheBefore)
        /\ (MissedTexts(variantTexts, eCacheBefore) = <<>>) => eRequests = <<>>

\* the answer is asked for with the context built from the hits picked among
\* the hits found for the vectors of this run's variant texts
AnswerAfterRetrieval ==
    mpc = "answering" =>
        /\ sop = "searchMulti"
        /\ pop = "done"
        /\ Len(sQueries) = Len(variantTexts)
        /\ sQueries = CachedVectors(embedCache, variantTexts)
        /\ sOut = searchMulti(store, sQueries, PER_QUERY_TOPK, FINAL_TOPK)
        /\ pHits = sOut
        /\ pOut = pickDiverse(pHits, CONTEXT_K, DefaultLambda, DefaultMinKeep)
        /\ context = buildContextBlock(pOut)
        /\ cContext = context
        /\ cQuestion = question

\* C21: main goes through its stages in the order rewrite, HyDE, embedding,
\* answer and never back; a request is made only for the call main is
\* awaiting, one call at a time; HyDE is not asked for after the rewrite call
\* failed; an attempt of the embedding call is one request for all the
\* variant texts without a cache entry; and the answer call is made with the
\* context selected from the hits retrieved for this run's vectors.
C21_StageOrder ==
    /\ [](OneCallAtItsStage /\ NoHydeAfterFailedRewrite /\ OneRequestForAllMisses
             /\ AnswerAfterRetrieval)
    /\ [][ /\ PlaceOf(mpc') >= PlaceOf(mpc)
           /\ RequestMade => (mpc' = mpc /\ mpc = AwaitedAt(label)) ]_vars

\* C21 witness: the answer call is at its second attempt, after a rewrite and
\* a hypothetical text were obtained and three variant texts were embedded
C21_Witness ==
    /\ mpc = "answering"
    /\ cpc = "waiting"
    /\ rpc = "calling"
    /\ Len(fnLog) = 1
    /\ Len(rewrites) > 0
    /\ Truthy(hyde)
    /\ Len(variantTexts) = 3
    /\ Len(sQueries) = 3

-----------------------------------------------------------------------------
(* Claims about the caches during a call, checked under SpecMain *)

\* the three cache objects
Caches == <<embedCache, augmentCache, answerCache>>

\* one of the four cached operations is at its "await withRetry(...)"
CallInFlight == epc = "waiting" \/ cpc = "waiting"

\* a step of embedTextsCached whose withRetry has returned: the entries
\* that were there stay, and every other entry is a vector of the result
\* under the key of the missed text it was returned for
EmbedStoresResult ==
    LET misses == MissesOf(eTexts, eMissIndexes)
    IN  /\ UNCHANGED <<augmentCache, answerCache>>
        /\ \A k \in DOMAIN embedCache : k \in DOMAIN embedCache' /\ embedCache'[k] = embedCache[k]
        /\ \A k \in (DOMAIN embedCache') \ (DOMAIN embedCache) :
               \E j \in 1..Len(misses) :
                  k = KeyOf[misses[j]] /\ embedCache'[k] = retResult.value[j]

\* a step of a generation function whose withRetry has returned: the value
\* made of the result is put under the key of the call, in the cache the
\* function was given, and nothing else changes
CachedStoresResult ==
    LET value == ValueOfResponse(cOp, retResult.value)
    IN  /\ UNCHANGED embedCache
        /\ IF cOp = "ans"
           THEN /\ UNCHANGED augmentCache
                /\ answerCache' = CachePut(answerCache, cKey, value)
           ELSE /\ UNCHANGED answerCache
                /\ augmentCache' = CachePut(augmentCache, cKey, value)

\* C23: from the start of a cached operation to its end no cache changes
\* unless withRetry has returned: not at the start, not when an attempt
\* fails, not during a backoff, not when withRetry throws (Quota, Other,
\* retries exhausted), so that a failed operation leaves its cache as it
\* was; when withRetry returns, after failed attempts or not, the entries of
\* its result are added and nothing else.
C23_FailedCallsKeepCaches ==
    [][ /\ (~CallInFlight /\ CallInFlight') => UNCHANGED Caches
        /\ (CallInFlight /\ rpc # "returned") => UNCHANGED Caches
        /\ (epc' = "thrown" \/ cpc' = "thrown") => UNCHANGED Caches
        /\ (epc = "waiting" /\ rpc = "returned") => EmbedStoresResult
        /\ (cpc = "waiting" /\ rpc = "returned") => CachedStoresResult ]_vars

\* C23 witness: the answer call has thrown after five failed attempts, on
\* caches that hold the vectors embedded in this run
C23_Witness ==
    /\ mode = "main"
    /\ cOp = "ans"
    /\ cpc = "thrown"
    /\ Len(fnLog) = 5
    /\ answerCache = EmptyCache
    /\ embedCache # EmptyCache

-----------------------------------------------------------------------------
(* Claims about the acceptance rule of pickDiverse, checked under SpecPick *)

\* the largest dot product of a with an embedding of picked, and 0 only when
\* nothing is picked yet
LargestSim(a, picked) ==
    IF Len(picked) = 0 THEN 0
    ELSE SetMax({ Dot2(a, picked[i].item.embeddingUnit) : i \in 1..Len(picked) })

\* picked is empty, or lambda * score - (1 - lambda) * maxSim > minKeep for
\* that maxSim
AcceptedByLargestSim(h, picked, lambda, minKeep) ==
    \/ Len(picked) = 0
    \/ lambda * h.score - (LambdaDen - lambda) * LargestSim(h.item.embeddingUnit, picked)
          > minKeep * Scale * Scale

\* one pass over the hits in their order, each hit tested once against the
\* picks made before it, until k hits are picked
RECURSIVE SinglePass(_, _, _, _, _)
SinglePass(hits, picked, k, lambda, minKeep) ==
    IF hits = <<>> \/ Len(picked) >= k THEN picked
    ELSE SinglePass(Tail(hits),
                    IF AcceptedByLargestSim(Head(hits), picked, lambda, minKeep)
                    THEN Append(picked, Head(hits)) ELSE picked,
                    k, lambda, minKeep)

\* C17: pickDiverse is one pass over the hits in their order, in which a hit
\* is accepted if and only if nothing is picked yet or lambda * score -
\* (1 - lambda) * maxSim > minKeep, maxSim being the largest similarity of
\* the hit with a hit picked before it.
C17_SinglePassLargestSim ==
    pop = "done" => pOut = SinglePass(pHits, <<>>, pK, pLambda, pMinKeep)

\* pickDiverse was called on the scenario's hits with k = 2, lambda = 0.8 and
\* the default minKeep
RedundancyScenario ==
    /\ pop = "done"
    /\ pHits \in ScenarioHits
    /\ pK = 2
    /\ pLambda = DefaultLambda
    /\ pMinKeep = DefaultMinKeep

\* cosine similarity of the embeddings of A and B, in units of 1/(Scale * Scale)
SimAB == Dot2(pHits[1].item.embeddingUnit, pHits[2].item.embeddingUnit)

\* the scenario's result: [A, B], the loop having tested A and B and left at
\* C with the budget filled
ScenarioReturnsAB ==
    RedundancyScenario =>
        /\ pOut = <<pHits[1], pHits[2]>>
        /\ PickEvaluated(pHits, <<>>, pK, pLambda, pMinKeep) = 2

\* C24: on merged hits [A (0.91), B (0.89), C (0.86)] with k = 2, lambda = 0.8
\* and minKeep = 0.1, pickDiverse accepts A, evaluates B with
\* mmrScore(B) = 0.8 * 0.89 - 0.2 * simAB, accepts B whatever simAB in [-1, 1]
\* is, and returns [A, B] without evaluating C.
C24_RedundancyScenario ==
    /\ ScenarioReturnsAB
    /\ RedundancyScenario =>
           MmrScore(pHits[2], <<pHits[1]>>, pLambda) = 8 * 89 - 2 * SimAB

-----------------------------------------------------------------------------
(* Claims about the backoff of withRetry, checked under SpecRetry *)

\* min(8000, 500 * 2^(r - 1))
BaseDelay(r) == IF 500 * Pow2(r - 1) < 8000 THEN 500 * Pow2(r - 1) ELSE 8000

\* C18: the r-th delay of a call of withRetry (r = 1..4) is
\* min(8000, 500 * 2^(r-1)) ms, that is 500, 1000, 2000, 4000, plus a jitter
\* of 0 to 250 ms, 8250 ms at most; a delay follows a failed attempt that is
\* retried and nothing else: none comes before the first attempt and none
\* after the attempt that ends the call.
C18_BackoffDelays ==
    /\ Len(waitLog) <= 4
    /\ \A r \in 1..Len(waitLog) :
           /\ BaseDelay(r) = <<500, 1000, 2000, 4000>>[r]
           /\ BaseDelay(r) <= 8000
           /\ waitLog[r] - BaseDelay(r) \in 0..250
           /\ waitLog[r] <= 8250
    /\ (rpc = "idle" => waitLog = <<>>)
    /\ (rpc \in {"calling", "backoff"} => Len(waitLog) = Len(fnLog))
    /\ (rpc \in {"returned", "thrown"} => Len(waitLog) = Len(fnLog) - 1)
    /\ (rpc = "backoff" => Retryable(Last(fnLog)))

\* five attempts have failed: four delays were waited, the first of 500 ms,
\* the last of 4249 ms, and none after the fifth attempt
C18_Witness ==
    /\ rpc = "thrown"
    /\ Len(fnLog) = 5
    /\ Len(waitLog) = 4
    /\ waitLog[1] = 500
    /\ waitLog[4] = 4249

====
